---- MODULE Spec2Model ----
(***************************************************************************)
(* A model of the streaming multipart/form-data parser: the streaming      *)
(* Boyer-Moore-Horspool scanner (StreamSearch), the token iterator built   *)
(* on it (ReadableStreamSearch) and the multipart state machine            *)
(* (readHeaderLines, streamMultipart, iterateMultipart).                   *)
(*                                                                         *)
(* Bytes are their integer codes.  A byte array is a sequence of bytes; a  *)
(* JavaScript index i (0-based) is the TLA+ index i + 1.                   *)
(***************************************************************************)
EXTENDS Integers, Sequences, FiniteSets, TLC

\* ------------------------------------------------------------------ bounds

\* StreamSearch on its own: the longest needle, the most bytes fed, the
\* longest chunk of one feed call.
MaxNeedle == 3
MaxFed == 5
MaxFeedLen == 3

\* Payloads: the most free bytes (prologue, bodies, epilogue together), the
\* longest chunk the stream delivers.
MaxFree == 3
MaxChunk == 3

\* ------------------------------------------------------------ byte arrays

\* Uint8Array.prototype.slice(from, to), 0-based, to exclusive.
\* A slice that loses its last byte (C3 must tell it from slice).
SliceShort(a, from, to) ==
  [i \in 1..((IF to < Len(a) THEN to ELSE Len(a)) - from - 1) |-> a[from + i]]

Slice(a, from, to) == SubSeq(a, from + 1, IF to > Len(a) THEN Len(a) ELSE to)

SliceFrom(a, from) == SubSeq(a, from + 1, Len(a))

RECURSIVE mergeArrays(_)
mergeArrays(arrays) ==
  IF arrays = << >> THEN << >> ELSE Head(arrays) \o mergeArrays(Tail(arrays))

arraysEqual(a, b) ==
  /\ Len(a) = Len(b)
  /\ \A i \in 1..Len(a) : a[i] = b[i]

\* ------------------------------------------------------------------ tokens

\* A token of the scanner: the MATCH symbol, or a run of bytes.
MATCH == [match |-> TRUE, data |-> << >>]

Data(bytes) == [match |-> FALSE, data |-> bytes]

\* ------------------------------------------------------------ StreamSearch

\* A loop over the needle from its end to its start, so that the first
\* place of a byte wins over its last (C39 must tell it from the code's).
RECURSIVE occurenceLoopDown(_, _, _, _)
occurenceLoopDown(s, c, entry, i) ==
  IF i < Len(s) - 1
  THEN IF s[i + 1] = c THEN Len(s) - 1 - i
       ELSE occurenceLoopDown(s, c, entry, i + 1)
  ELSE entry

\* for (let i = 0; i < s.length - 1; i++) table[s[i]] = s.length - 1 - i,
\* as it acts on the entry of the byte c: the entry is overwritten at each
\* i with s[i] = c, in rising order.
RECURSIVE occurenceLoop(_, _, _, _)
occurenceLoop(s, c, entry, i) ==
  IF i < Len(s) - 1
  THEN occurenceLoop(s, c, IF s[i + 1] = c THEN Len(s) - 1 - i ELSE entry, i + 1)
  ELSE entry

\* The table of a needle: 256 entries filled with its length, overwritten
\* by the loop when the needle has more than one byte.
createOccurenceTable(s) ==
  [c \in 0..255 |-> IF Len(s) > 1 THEN occurenceLoop(s, c, Len(s), 0) ELSE Len(s)]

\* this._occ[ch]
occ(needle, ch) == createOccurenceTable(needle)[ch]

\* this._charAt(data, pos): a negative pos reads the lookbehind.
charAt(lookbehind, data, pos) ==
  IF pos < 0
  THEN IF Len(lookbehind) + pos >= 0
       THEN lookbehind[Len(lookbehind) + pos + 1] ELSE -1
  ELSE IF pos < Len(data) THEN data[pos + 1] ELSE -1

\* this._memcmp(data, pos, len): lookbehind+data at pos against needle[0..len).
memcmp(needle, lookbehind, data, pos, len) ==
  \A i \in 0..(len - 1) :
     charAt(lookbehind, data, pos + i) = (IF i < Len(needle) THEN needle[i + 1] ELSE -1)

\* jsmemcmp(data, pos, needle, 0, len) on two arrays
jsmemcmp(data, pos, needle, len) ==
  \A i \in 0..(len - 1) :
     (IF pos + i < Len(data) THEN data[pos + i + 1] ELSE -1)
       = (IF i < Len(needle) THEN needle[i + 1] ELSE -1)

\* A search loop that gives up on the lookbehind: an occurrence that began
\* in an earlier chunk is not looked for (C2 must tell it from the code's).
lookbehindSearchNone(needle, lookbehind, data, pos) == [found |-> FALSE, pos |-> 0]

\* The search loop over lookbehind+data (pos < 0): where it stops and
\* whether it stopped on a match.
RECURSIVE lookbehindSearch(_, _, _, _)
lookbehindSearch(needle, lookbehind, data, pos) ==
  IF pos < 0 /\ pos <= Len(data) - Len(needle)
  THEN LET ch == charAt(lookbehind, data, pos + Len(needle) - 1)
       IN IF /\ ch = needle[Len(needle)]
             /\ memcmp(needle, lookbehind, data, pos, Len(needle) - 1)
          THEN [found |-> TRUE, pos |-> pos]
          ELSE lookbehindSearch(needle, lookbehind, data, pos + occ(needle, ch))
  ELSE [found |-> FALSE, pos |-> pos]

\* A skip that goes back to the start of the lookbehind, so that nothing of
\* it is cut off (C22 must tell it from the code's).
lookbehindSkipBack(needle, lookbehind, data, pos) == -Len(lookbehind)

\* A skip that stops one byte early when it can, keeping a byte that begins
\* no needle (C21 must tell it from the code's).
lookbehindSkipEarly(needle, lookbehind, data, pos) ==
  IF pos < -1 /\ ~memcmp(needle, lookbehind, data, pos, Len(data) - pos)
  THEN pos + 1
  ELSE pos

\* Too little data for a search step: skip to the first pos whose tail
\* could begin the needle.
RECURSIVE lookbehindSkip(_, _, _, _)
lookbehindSkip(needle, lookbehind, data, pos) ==
  IF pos < 0 /\ ~memcmp(needle, lookbehind, data, pos, Len(data) - pos)
  THEN lookbehindSkip(needle, lookbehind, data, pos + 1)
  ELSE pos

\* A search loop over data that always skips a whole needle, whatever the
\* occurrence table says (C4 must tell it from the code's).
RECURSIVE chunkSearchStride(_, _, _)
chunkSearchStride(needle, data, pos) ==
  IF pos <= Len(data) - Len(needle)
  THEN IF /\ data[pos + Len(needle)] = needle[Len(needle)]
          /\ data[pos + 1] = needle[1]
          /\ jsmemcmp(data, pos, needle, Len(needle) - 1)
       THEN [found |-> TRUE, pos |-> pos]
       ELSE chunkSearchStride(needle, data, pos + Len(needle))
  ELSE [found |-> FALSE, pos |-> pos]

\* The search loop over data alone.
RECURSIVE chunkSearch(_, _, _)
chunkSearch(needle, data, pos) ==
  IF pos <= Len(data) - Len(needle)
  THEN LET ch == data[pos + Len(needle)]
       IN IF /\ ch = needle[Len(needle)]
             /\ data[pos + 1] = needle[1]
             /\ jsmemcmp(data, pos, needle, Len(needle) - 1)
          THEN [found |-> TRUE, pos |-> pos]
          ELSE chunkSearch(needle, data, pos + occ(needle, ch))
  ELSE [found |-> FALSE, pos |-> pos]

\* The trailing bytes, fewer than the needle: the first pos whose tail
\* could begin the needle.
RECURSIVE chunkTail(_, _, _)
chunkTail(needle, data, pos) ==
  IF /\ pos < Len(data)
     /\ (data[pos + 1] # needle[1] \/ ~jsmemcmp(data, pos, needle, Len(data) - pos))
  THEN chunkTail(needle, data, pos + 1)
  ELSE pos

\* A second half that counts one byte too many after a match, so that a
\* match at the end of the data gives a position past it (C37 must tell it
\* from the code's).
feedChunkPartOver(needle, data, buf_pos, pos, tokens) ==
  LET r == chunkSearch(needle, data, pos)
  IN IF r.found
     THEN [pos |-> r.pos + Len(needle) + 1,
           tokens |-> tokens
                      \o (IF r.pos > buf_pos
                          THEN << Data(Slice(data, buf_pos, r.pos)) >> ELSE << >>)
                      \o << MATCH >>,
           lookbehind |-> << >>]
     ELSE LET p == IF r.pos < Len(data) THEN chunkTail(needle, data, r.pos) ELSE r.pos
          IN [pos |-> Len(data),
              tokens |-> tokens
                         \o (IF p > 0
                             THEN << Data(Slice(data, buf_pos,
                                               IF p < Len(data) THEN p ELSE Len(data))) >>
                             ELSE << >>),
              lookbehind |-> IF p < Len(data) THEN SliceFrom(data, p) ELSE << >>]

\* The second half of _feed: the lookbehind is empty, pos is in data.
feedChunkPart(needle, data, buf_pos, pos, tokens) ==
  LET r == chunkSearch(needle, data, pos)
  IN IF r.found
     THEN [pos |-> r.pos + Len(needle),
           tokens |-> tokens
                      \o (IF r.pos > buf_pos
                          THEN << Data(Slice(data, buf_pos, r.pos)) >> ELSE << >>)
                      \o << MATCH >>,
           lookbehind |-> << >>]
     ELSE LET p == IF r.pos < Len(data) THEN chunkTail(needle, data, r.pos) ELSE r.pos
          IN [pos |-> Len(data),
              tokens |-> tokens
                         \o (IF p > 0
                             THEN << Data(Slice(data, buf_pos,
                                               IF p < Len(data) THEN p ELSE Len(data))) >>
                             ELSE << >>),
              lookbehind |-> IF p < Len(data) THEN SliceFrom(data, p) ELSE << >>]

\* StreamSearch._feed(data, buf_pos): the new position, the tokens and the
\* lookbehind it leaves.
feedStep(needle, lookbehind, data, buf_pos) ==
  IF Len(lookbehind) > 0
  THEN LET r == lookbehindSearch(needle, lookbehind, data, -Len(lookbehind))
       IN IF r.found
          THEN [pos |-> r.pos + Len(needle),
                tokens |-> (IF r.pos > -Len(lookbehind)
                            THEN << Data(Slice(lookbehind, 0, Len(lookbehind) + r.pos)) >>
                            ELSE << >>)
                           \o << MATCH >>,
                lookbehind |-> << >>]
          ELSE LET p == IF r.pos < 0
                        THEN lookbehindSkip(needle, lookbehind, data, r.pos)
                        ELSE r.pos
               IN IF p >= 0
                  THEN feedChunkPart(needle, data, buf_pos, p + buf_pos,
                                     << Data(lookbehind) >>)
                  ELSE LET bytesToCutOff == Len(lookbehind) + p
                       IN [pos |-> Len(data),
                           tokens |-> IF bytesToCutOff > 0
                                      THEN << Data(Slice(lookbehind, 0, bytesToCutOff)) >>
                                      ELSE << >>,
                           lookbehind |->
                             (IF bytesToCutOff > 0
                              THEN SliceFrom(lookbehind, bytesToCutOff)
                              ELSE lookbehind) \o data]
  ELSE feedChunkPart(needle, data, buf_pos, buf_pos, << >>)

\* StreamSearch.feed(chunk): _feed until the chunk is used up.
\* feed pushing the tokens of each _feed call in front of the earlier ones.
RECURSIVE feedLoopReversed(_, _, _, _, _)
feedLoopReversed(needle, lookbehind, chunk, pos, allTokens) ==
  IF pos # Len(chunk)
  THEN LET r == feedStep(needle, lookbehind, chunk, pos)
       IN feedLoopReversed(needle, r.lookbehind, chunk, r.pos, r.tokens \o allTokens)
  ELSE [tokens |-> allTokens, lookbehind |-> lookbehind]

\* A loop that flushes the lookbehind when the chunk has no bytes (C25 must
\* tell it from the code's).
RECURSIVE feedLoopFlushing(_, _, _, _, _)
feedLoopFlushing(needle, lookbehind, chunk, pos, allTokens) ==
  IF pos # Len(chunk)
  THEN LET r == feedStep(needle, lookbehind, chunk, pos)
       IN feedLoopFlushing(needle, r.lookbehind, chunk, r.pos, allTokens \o r.tokens)
  ELSE IF Len(chunk) = 0 /\ Len(lookbehind) > 0
  THEN [tokens |-> << Data(lookbehind) >>, lookbehind |-> << >>]
  ELSE [tokens |-> allTokens, lookbehind |-> lookbehind]

RECURSIVE feedLoop(_, _, _, _, _)
feedLoop(needle, lookbehind, chunk, pos, allTokens) ==
  IF pos # Len(chunk)
  THEN LET r == feedStep(needle, lookbehind, chunk, pos)
       IN feedLoop(needle, r.lookbehind, chunk, r.pos, allTokens \o r.tokens)
  ELSE [tokens |-> allTokens, lookbehind |-> lookbehind]

feed(needle, lookbehind, chunk) == feedLoop(needle, lookbehind, chunk, 0, << >>)

\* ------------------------------------------------------- strings, headers

\* A JavaScript string is the sequence of its code units.  An absent
\* (undefined) property is Undefined, which is no string.
Undefined == << -1 >>

\* String.fromCharCode.apply(null, a): one code unit per byte.
arrayToString(a) == [i \in 1..Len(a) |-> a[i]]

\* unescape(encodeURIComponent(s)): the UTF-8 bytes of s (code units below
\* 0x800: one byte below 0x80, two bytes from there).
RECURSIVE stringToArray(_)
stringToArray(s) ==
  IF s = << >> THEN << >>
  ELSE (IF Head(s) < 128 THEN << Head(s) >>
        ELSE << 192 + (Head(s) \div 64), 128 + (Head(s) % 64) >>)
       \o stringToArray(Tail(s))

dash == stringToArray(<< 45, 45 >>)

CRLF == stringToArray(<< 13, 10 >>)

StrFormData == << 102, 111, 114, 109, 45, 100, 97, 116, 97 >>

StrContentDisposition ==
  << 99, 111, 110, 116, 101, 110, 116, 45, 100, 105, 115, 112, 111, 115, 105, 116, 105, 111, 110 >>

StrContentType == << 99, 111, 110, 116, 101, 110, 116, 45, 116, 121, 112, 101 >>

KeyName == << 110, 97, 109, 101 >>

KeyFilename == << 102, 105, 108, 101, 110, 97, 109, 101 >>

KeyContentType == << 99, 111, 110, 116, 101, 110, 116, 84, 121, 112, 101 >>

\* 'headerLines'
KeyHeaderLines == << 104, 101, 97, 100, 101, 114, 76, 105, 110, 101, 115 >>

\* The code units String.prototype.trim removes (those below 256).
WhiteSpace == {9, 10, 11, 12, 13, 32, 160}

trim(s) ==
  LET keep == {i \in 1..Len(s) : s[i] \notin WhiteSpace}
  IN IF keep = {} THEN << >>
     ELSE SubSeq(s, CHOOSE i \in keep : \A j \in keep : i <= j,
                    CHOOSE i \in keep : \A j \in keep : j <= i)

toLowerCase(s) ==
  [i \in 1..Len(s) |->
     IF s[i] \in (65..90) \cup (192..214) \cup (216..222) THEN s[i] + 32 ELSE s[i]]

\* str.indexOf(c) for one code unit c: 0-based, -1 when absent.
indexOf(str, c) ==
  LET at == {i \in 1..Len(str) : str[i] = c}
  IN IF at = {} THEN -1 ELSE (CHOOSE i \in at : \A j \in at : i <= j) - 1

\* A split that knows no quotes: every `;` ends a parameter (C38 must tell
\* it from the code's).
RECURSIVE splitSemisFromPlain(_, _, _, _, _, _)
splitSemisFromPlain(str, i, result, staged, quoted, escaped) ==
  IF i > Len(str) THEN Append(result, staged)
  ELSE IF str[i] = 59
  THEN splitSemisFromPlain(str, i + 1, Append(result, staged), << >>, quoted, escaped)
  ELSE splitSemisFromPlain(str, i + 1, result, Append(staged, str[i]), quoted, escaped)

RECURSIVE splitSemisFrom(_, _, _, _, _, _)
splitSemisFrom(str, i, result, staged, quoted, escaped) ==
  IF i > Len(str) THEN Append(result, staged)
  ELSE LET char == str[i]
       IN IF ~escaped /\ char # 34 /\ ~(char = 92 /\ quoted) /\ char = 59 /\ ~quoted
          THEN splitSemisFrom(str, i + 1, Append(result, staged), << >>, quoted, escaped)
          ELSE splitSemisFrom(str, i + 1, result, Append(staged, char),
                              IF ~escaped /\ char = 34 THEN ~quoted ELSE quoted,
                              ~escaped /\ char # 34 /\ char = 92 /\ quoted)

splitSemis(str) == splitSemisFrom(str, 1, << >>, << >>, FALSE, FALSE)

\* The loop of parseKeyValue over the text between the quotes.
RECURSIVE unquoteFrom(_, _, _, _)
unquoteFrom(s, i, value, escaped) ==
  IF i > Len(s) THEN value
  ELSE IF s[i] = 92 /\ ~escaped THEN unquoteFrom(s, i + 1, value, TRUE)
  ELSE unquoteFrom(s, i + 1, Append(value, s[i]), FALSE)

Thrown(message) == [ok |-> FALSE, error |-> message]

parseKeyValue(str) ==
  LET equals == indexOf(str, 61)
      key == Slice(str, 0, equals)
      rawValue == SliceFrom(str, equals + 1)
  IN IF equals < 0 THEN Thrown("missing value")
     ELSE IF rawValue # << >> /\ rawValue[1] = 34
     THEN IF rawValue[Len(rawValue)] # 34 THEN Thrown("mismatched quotations")
          ELSE [ok |-> TRUE, key |-> key,
                value |-> unquoteFrom(Slice(rawValue, 1, Len(rawValue) - 1), 1, << >>, FALSE)]
     ELSE [ok |-> TRUE, key |-> key, value |-> rawValue]

\* out[name] = value on the entries of an object, in insertion order.
setProperty(out, key, value) ==
  IF \E i \in 1..Len(out) : out[i][1] = key
  THEN [i \in 1..Len(out) |-> IF out[i][1] = key THEN << key, value >> ELSE out[i]]
  ELSE Append(out, << key, value >>)

\* key in Object.fromEntries(entries)
hasProperty(entries, key) == \E i \in 1..Len(entries) : entries[i][1] = key

\* obj[key] of Object.fromEntries(entries): the last entry wins.
getProperty(entries, key) ==
  LET at == {i \in 1..Len(entries) : entries[i][1] = key}
  IN IF at = {} THEN Undefined
     ELSE entries[CHOOSE i \in at : \A j \in at : j <= i][2]

RECURSIVE dispositionParams(_, _, _)
dispositionParams(parts, i, out) ==
  IF i > Len(parts) THEN [ok |-> TRUE, out |-> out]
  ELSE LET kv == parseKeyValue(parts[i])
       IN IF ~kv.ok THEN kv
          ELSE dispositionParams(parts, i + 1, setProperty(out, kv.key, kv.value))

\* parseContentDisposition without its test of out.name (C17 must tell it
\* from the code's).
parseContentDispositionAnyName(header) ==
  LET split == splitSemis(header)
      parts == [i \in 1..Len(split) |-> trim(split[i])]
  IN IF parts[1] # StrFormData THEN Thrown("missing form-data")
     ELSE dispositionParams(parts, 2, << >>)

parseContentDisposition(header) ==
  LET split == splitSemis(header)
      parts == [i \in 1..Len(split) |-> trim(split[i])]
  IN IF parts[1] # StrFormData THEN Thrown("missing form-data")
     ELSE LET r == dispositionParams(parts, 2, << >>)
          IN IF ~r.ok THEN r
             ELSE IF getProperty(r.out, KeyName) \in {Undefined, << >>}
             THEN Thrown("missing field name")
             ELSE [ok |-> TRUE, out |-> r.out]

\* parsePartHeaders without its test of `disposition` after the loop
\* (C16 must tell it from the code's).
RECURSIVE partHeaderLinesUnchecked(_, _, _, _)
partHeaderLinesUnchecked(lines, i, entries, disposition) ==
  IF i > Len(lines) THEN [ok |-> TRUE, entries |-> entries]
  ELSE LET line == lines[i]
           colon == indexOf(line, 58)
           header == toLowerCase(trim(Slice(line, 0, colon)))
           value == trim(SliceFrom(line, colon + 1))
       IN IF colon = -1 THEN Thrown("missing colon")
          ELSE IF header = StrContentDisposition
          THEN LET d == parseContentDisposition(value)
               IN IF ~d.ok THEN d
                  ELSE partHeaderLinesUnchecked(lines, i + 1, entries \o d.out, TRUE)
          ELSE IF header = StrContentType
          THEN partHeaderLinesUnchecked(lines, i + 1,
                                        Append(entries, << KeyContentType, value >>),
                                        disposition)
          ELSE partHeaderLinesUnchecked(lines, i + 1, entries, disposition)

RECURSIVE partHeaderLines(_, _, _, _)
partHeaderLines(lines, i, entries, disposition) ==
  IF i > Len(lines)
  THEN IF ~disposition THEN Thrown("missing content-disposition")
       ELSE [ok |-> TRUE, entries |-> entries]
  ELSE LET line == lines[i]
           colon == indexOf(line, 58)
           header == toLowerCase(trim(Slice(line, 0, colon)))
           value == trim(SliceFrom(line, colon + 1))
       IN IF colon = -1 THEN Thrown("missing colon")
          ELSE IF header = StrContentDisposition
          THEN LET d == parseContentDisposition(value)
               IN IF ~d.ok THEN d
                  ELSE partHeaderLines(lines, i + 1, entries \o d.out, TRUE)
          ELSE IF header = StrContentType
          THEN partHeaderLines(lines, i + 1,
                               Append(entries, << KeyContentType, value >>), disposition)
          ELSE partHeaderLines(lines, i + 1, entries, disposition)

parsePartHeaders(lines) == partHeaderLines(lines, 1, << >>, FALSE)

\* ------------------------------------------------- the multipart machine

\* The state of one streamMultipart generator and of the body iterators it
\* handed out, as a record:
\*   gen    where the generator stands: "start" (not run yet), "prologue",
\*          "headers" (in readHeaderLines), "yielded" (suspended at yield),
\*          "drain" (in the loop after yield), "done" (returned), "error"
\*          (threw);
\*   call   what the consumer awaits: "part" (the generator's next()),
\*          "body" (the current body iterator's next()), or "none";
\*   firstChunk, lastTokenWasMatch, headerLines, hLookbehind: the locals of
\*          readHeaderLines (hLookbehind: its crlfSearch);
\*   cLookbehind: the crlfSearch of streamMultipart;
\*   parts  one record per part yielded: the descriptor (its properties
\*          besides data, in insertion order, and of them name, filename,
\*          contentType), the closure's trailingCRLF, done, bufferedChunks,
\*          and what its consumer has seen: received (the body bytes), ended
\*          (next() returned done), failed (next() threw);
\*   error  the message of the error the generator threw, "" if none.
HeaderLocals ==
  [firstChunk |-> TRUE, lastTokenWasMatch |-> FALSE,
   headerLines |-> << << >> >>, hLookbehind |-> << >>]

NewMultipart ==
  [gen |-> "start", call |-> "none", cLookbehind |-> << >>,
   parts |-> << >>, error |-> ""] @@ HeaderLocals

\* Control enters readHeaderLines (line 691).
enterHeaders(m) ==
  [m EXCEPT !.gen = "headers", !.firstChunk = TRUE, !.lastTokenWasMatch = FALSE,
            !.headerLines = << << >> >>, !.hLookbehind = << >>]

\* The generator throws: it is finished, and the pending next() rejects.
throw(m, message) ==
  [[m EXCEPT !.gen = "error", !.call = "none", !.error = message] EXCEPT
     !.firstChunk = TRUE, !.lastTokenWasMatch = FALSE,
     !.headerLines = << << >> >>, !.hLookbehind = << >>]

\* A loop of feedChunk that never forwards the CRLF it held back (C6 must
\* tell it from the code's).
RECURSIVE feedChunkTokensNoCRLF(_, _, _, _)
feedChunkTokensNoCRLF(tokens, i, trailingCRLF, chunks) ==
  IF i > Len(tokens) THEN [chunks |-> chunks, trailingCRLF |-> trailingCRLF]
  ELSE feedChunkTokensNoCRLF(tokens, i + 1, tokens[i].match,
                             IF tokens[i].match THEN chunks
                             ELSE Append(chunks, tokens[i].data))

\* The loop of feedChunk over the tokens of crlfSearch.feed(chunk).
RECURSIVE feedChunkTokens(_, _, _, _)
feedChunkTokens(tokens, i, trailingCRLF, chunks) ==
  IF i > Len(tokens) THEN [chunks |-> chunks, trailingCRLF |-> trailingCRLF]
  ELSE LET token == tokens[i]
           pending == IF trailingCRLF THEN Append(chunks, CRLF) ELSE chunks
       IN feedChunkTokens(tokens, i + 1, token.match,
                          IF token.match THEN pending ELSE Append(pending, token.data))

\* What feedChunk returns after its loop left r: mergeArrays(...chunks).
feedChunkValue(r, lookbehind) ==
  [value |-> mergeArrays(r.chunks), trailingCRLF |-> r.trailingCRLF,
   done |-> FALSE, lookbehind |-> lookbehind]

\* feedChunk once crlfSearch.feed(chunk) has returned f.
feedChunkFed(f, trailingCRLF) ==
  feedChunkValue(feedChunkTokens(f.tokens, 1, trailingCRLF, << >>), f.lookbehind)

\* feedChunk(chunk): the bytes to forward, and the closure it leaves.
feedChunk(lookbehind, trailingCRLF, chunk) ==
  feedChunkFed(feed(CRLF, lookbehind, chunk), trailingCRLF)

\* A nextChunk that forwards the pending CRLF when the delimiter arrives
\* (C29 must tell it from the code's).
nextChunkKeepCRLF(lookbehind, trailingCRLF, token) ==
  IF token.match /\ trailingCRLF
  THEN [value |-> CRLF \o lookbehind, trailingCRLF |-> trailingCRLF,
        done |-> TRUE, lookbehind |-> << >>]
  ELSE feedChunk(lookbehind, trailingCRLF, IF token.match THEN CRLF ELSE token.data)

\* nextChunk() once nextToken() has returned the token.
nextChunk(lookbehind, trailingCRLF, token) ==
  IF token.match /\ trailingCRLF
  THEN [value |-> lookbehind, trailingCRLF |-> trailingCRLF,
        done |-> TRUE, lookbehind |-> << >>]
  ELSE feedChunk(lookbehind, trailingCRLF, IF token.match THEN CRLF ELSE token.data)

\* A loop of readHeaderLines that returns at the blank line only when a
\* token follows it in the same chunk (C12 must tell it from the code's).
RECURSIVE headerTokensLate(_, _, _, _, _)
headerTokensLate(tokens, i, lastTokenWasMatch, headerLines, lookbehind) ==
  IF i > Len(tokens)
  THEN [returned |-> FALSE, lastTokenWasMatch |-> lastTokenWasMatch,
        headerLines |-> headerLines, tail |-> << >>]
  ELSE LET token == tokens[i]
       IN IF ~token.match /\ Len(token.data) = 0
          THEN headerTokensLate(tokens, i + 1, lastTokenWasMatch, headerLines, lookbehind)
          ELSE IF lastTokenWasMatch /\ token.match /\ i < Len(tokens)
          THEN [returned |-> TRUE, lastTokenWasMatch |-> lastTokenWasMatch,
                headerLines |-> SelectSeq(headerLines, LAMBDA chunks : Len(chunks) > 0),
                tail |-> mergeArrays(
                           [k \in 1..(Len(tokens) - i) |->
                              IF tokens[i + k].match THEN CRLF ELSE tokens[i + k].data]
                           \o << lookbehind >>)]
          ELSE headerTokensLate(tokens, i + 1, token.match,
                                IF token.match /\ ~lastTokenWasMatch
                                THEN Append(headerLines, << >>)
                                ELSE IF token.match THEN headerLines
                                ELSE [headerLines EXCEPT ![Len(headerLines)] = @ \o token.data],
                                lookbehind)

\* A loop of readHeaderLines that returns the tokens after the blank line
\* without crlfSearch.end() (C32 must tell it from the code's).
RECURSIVE headerTokensNoEnd(_, _, _, _, _)
headerTokensNoEnd(tokens, i, lastTokenWasMatch, headerLines, lookbehind) ==
  IF i > Len(tokens)
  THEN [returned |-> FALSE, lastTokenWasMatch |-> lastTokenWasMatch,
        headerLines |-> headerLines, tail |-> << >>]
  ELSE LET token == tokens[i]
       IN IF ~token.match /\ Len(token.data) = 0
          THEN headerTokensNoEnd(tokens, i + 1, lastTokenWasMatch, headerLines, lookbehind)
          ELSE IF lastTokenWasMatch /\ token.match
          THEN [returned |-> TRUE, lastTokenWasMatch |-> lastTokenWasMatch,
                headerLines |-> SelectSeq(headerLines, LAMBDA chunks : Len(chunks) > 0),
                tail |-> mergeArrays(
                           [k \in 1..(Len(tokens) - i) |->
                              IF tokens[i + k].match THEN CRLF ELSE tokens[i + k].data])]
          ELSE headerTokensNoEnd(tokens, i + 1, token.match,
                                 IF token.match THEN Append(headerLines, << >>)
                                 ELSE [headerLines EXCEPT ![Len(headerLines)] = @ \o token.data],
                                 lookbehind)

\* The loop of readHeaderLines over the tokens of crlfSearch.feed(chunk):
\* either it returns (the header lines, the tail), or it leaves new locals.
RECURSIVE headerTokens(_, _, _, _, _)
headerTokens(tokens, i, lastTokenWasMatch, headerLines, lookbehind) ==
  IF i > Len(tokens)
  THEN [returned |-> FALSE, lastTokenWasMatch |-> lastTokenWasMatch,
        headerLines |-> headerLines, tail |-> << >>]
  ELSE LET token == tokens[i]
       IN IF ~token.match /\ Len(token.data) = 0
          THEN headerTokens(tokens, i + 1, lastTokenWasMatch, headerLines, lookbehind)
          ELSE IF lastTokenWasMatch /\ token.match
          THEN [returned |-> TRUE, lastTokenWasMatch |-> lastTokenWasMatch,
                headerLines |-> SelectSeq(headerLines, LAMBDA chunks : Len(chunks) > 0),
                tail |-> mergeArrays(
                           [k \in 1..(Len(tokens) - i) |->
                              IF tokens[i + k].match THEN CRLF ELSE tokens[i + k].data]
                           \o << lookbehind >>)]
          ELSE headerTokens(tokens, i + 1, token.match,
                            IF token.match THEN Append(headerLines, << >>)
                            ELSE [headerLines EXCEPT ![Len(headerLines)] = @ \o token.data],
                            lookbehind)

\* streamMultipart from the return of readHeaderLines to the yield
\* (lines 692-785): the first buffered chunk, the headers, the part.
yieldPartOf(m, first, h) ==
  IF ~h.ok THEN [throw(m, h.error) EXCEPT !.cLookbehind = first.lookbehind]
  ELSE [[m EXCEPT !.gen = "yielded", !.call = "none",
                  !.cLookbehind = first.lookbehind,
                  !.parts = Append(@,
                     [descriptor |-> h.entries,
                      name |-> getProperty(h.entries, KeyName),
                      filename |-> getProperty(h.entries, KeyFilename),
                      contentType |-> getProperty(h.entries, KeyContentType),
                      trailingCRLF |-> first.trailingCRLF,
                      done |-> FALSE,
                      bufferedChunks |-> << first.value >>,
                      received |-> << >>, ended |-> FALSE, failed |-> FALSE])]
        EXCEPT !.firstChunk = TRUE, !.lastTokenWasMatch = FALSE,
               !.headerLines = << << >> >>, !.hLookbehind = << >>]

\* A streamMultipart whose trailingCRLF is shared by the parts as its
\* crlfSearch is (C34 must tell it from the code's).
yieldPartShared(m, lines, tail) ==
  yieldPartOf(m, feedChunk(m.cLookbehind,
                           m.parts # << >> /\ m.parts[Len(m.parts)].trailingCRLF, tail),
              parsePartHeaders([i \in 1..Len(lines) |-> arrayToString(lines[i])]))

\* bufferedChunks = [feedChunk(tail)], then parsePartHeaders(headerLines).
yieldPart(m, lines, tail) ==
  yieldPartOf(m, feedChunk(m.cLookbehind, FALSE, tail),
              parsePartHeaders([i \in 1..Len(lines) |-> arrayToString(lines[i])]))

\* readHeaderLines after its loop over the tokens of crlfSearch.feed(chunk)
\* left r: it returns to streamMultipart, or awaits the next token.
headerLinesRead(m, r, lookbehind) ==
  IF r.returned THEN yieldPart(m, r.headerLines, r.tail)
  ELSE [m EXCEPT !.firstChunk = FALSE,
                 !.lastTokenWasMatch = r.lastTokenWasMatch,
                 !.headerLines = r.headerLines,
                 !.hLookbehind = lookbehind]

\* readHeaderLines once crlfSearch.feed(chunk) has returned f.
headerFed(m, f) ==
  headerLinesRead(m, headerTokens(f.tokens, 1, m.lastTokenWasMatch,
                                  m.headerLines, f.lookbehind), f.lookbehind)

\* readHeaderLines on a chunk: an empty one is passed over.
headerChunk(m, chunk) ==
  IF Len(chunk) = 0 THEN m ELSE headerFed(m, feed(CRLF, m.hLookbehind, chunk))

\* A loop of readHeaderLines that takes for the end of the payload only a
\* token that is `--` and no more (C31 must tell it from the code's).
headerTokenStrict(m, needle, token) ==
  IF m.firstChunk /\ ~token.match /\ arraysEqual(token.data, dash)
  THEN [enterHeaders(m) EXCEPT !.gen = "done", !.call = "none"]
  ELSE IF token.match /\ m.lastTokenWasMatch THEN throw(m, "unexpected boundary")
  ELSE headerChunk(m, IF token.match THEN needle ELSE token.data)

\* One turn of the loop of readHeaderLines on the token it.next() gave.
headerToken(m, needle, token) ==
  IF m.firstChunk /\ ~token.match /\ arraysEqual(Slice(token.data, 0, 2), dash)
  THEN \* end of multipart payload: streamMultipart returns
       [enterHeaders(m) EXCEPT !.gen = "done", !.call = "none"]
  ELSE IF token.match /\ m.lastTokenWasMatch THEN throw(m, "unexpected boundary")
  ELSE headerChunk(m, IF token.match THEN needle ELSE token.data)

\* A prologue loop that hands the bytes before the first Match to the
\* header reader (C9 must tell it from the code's).
prologueTokenKept(m, token) ==
  IF token.match THEN enterHeaders(m)
  ELSE [enterHeaders(m) EXCEPT !.firstChunk = FALSE, !.headerLines = << token.data >>]

\* The prologue loop of streamMultipart on the token it.next() gave.
prologueToken(m, token) == IF token.match THEN enterHeaders(m) ELSE m

\* What nextChunk() returned for the current part: the chunk, and the
\* machine with the closure's new state.
chunkResult(m, c) ==
  [value |-> c.value,
   m |-> [m EXCEPT !.cLookbehind = c.lookbehind,
                   !.parts[Len(m.parts)].trailingCRLF = c.trailingCRLF,
                   !.parts[Len(m.parts)].done = c.done]]

\* nextChunk() for the current part, on the token it.next() gave.
currentChunk(m, token) ==
  chunkResult(m, nextChunk(m.cLookbehind, m.parts[Len(m.parts)].trailingCRLF, token))

\* bufferedChunks.push(chunk) in the loop after the yield.
pushChunk(c) ==
  [c.m EXCEPT !.parts[Len(c.m.parts)].bufferedChunks = Append(@, c.value)]

\* A loop after the yield that is left after one chunk (C30 must tell it
\* from the code's).
drainedEarly(pushed) == enterHeaders(pushed)

\* `while (!done)`: once done, readHeaderLines is next.
drained(pushed) ==
  IF pushed.parts[Len(pushed.parts)].done THEN enterHeaders(pushed) ELSE pushed

\* The loop after the yield, `while (!done) bufferedChunks.push(await
\* nextChunk())`, on one token.
drainToken(m, token) == drained(pushChunk(currentChunk(m, token)))

\* A second loop that returns the chunk nextChunk() gave whatever its
\* length (C35 must tell it from the code's).
bodyChunkAny(c) ==
  IF c.m.parts[Len(c.m.parts)].done /\ Len(c.value) = 0
  THEN [c.m EXCEPT !.call = "none", !.parts[Len(c.m.parts)].ended = TRUE]
  ELSE [c.m EXCEPT !.call = "none", !.parts[Len(c.m.parts)].received = @ \o c.value]

\* The second loop of the body iterator's next() on the chunk nextChunk()
\* gave: a chunk with bytes is returned, an empty one is passed over; done
\* ends it.
bodyChunk(c) ==
  IF Len(c.value) > 0
  THEN [c.m EXCEPT !.call = "none", !.parts[Len(c.m.parts)].received = @ \o c.value]
  ELSE IF c.m.parts[Len(c.m.parts)].done
  THEN [c.m EXCEPT !.call = "none", !.parts[Len(c.m.parts)].ended = TRUE]
  ELSE c.m

\* The second loop of the body iterator's next() on one token.
bodyToken(m, token) == bodyChunk(currentChunk(m, token))

\* The awaited it.next() resolves with a token.
onToken(m, needle, token) ==
  CASE m.call = "body" -> bodyToken(m, token)
    [] m.call = "part" /\ m.gen = "prologue" -> prologueToken(m, token)
    [] m.call = "part" /\ m.gen = "headers" -> headerToken(m, needle, token)
    [] m.call = "part" /\ m.gen = "drain" -> drainToken(m, token)
    [] OTHER -> m

\* An end of the source that ends whatever is being read as if it were
\* complete (C7 must tell it from the code's).
onDoneLenient(m) ==
  CASE m.call = "body" ->
         [m EXCEPT !.call = "none", !.parts[Len(m.parts)].ended = TRUE,
                   !.parts[Len(m.parts)].done = TRUE]
    [] m.call = "part" -> [m EXCEPT !.gen = "done", !.call = "none"]
    [] OTHER -> m

\* An end of the source that is an error in the prologue loop too (C36
\* must tell it from the code's).
onDoneStrict(m) ==
  CASE m.call = "body" ->
         [m EXCEPT !.call = "none", !.parts[Len(m.parts)].failed = TRUE]
    [] m.call = "part" /\ m.gen \in {"prologue", "headers", "drain"} ->
         throw(m, "unexpected end of stream")
    [] OTHER -> m

\* The awaited it.next() resolves with done: the source is at its end.
onDone(m) ==
  CASE m.call = "body" ->
         [m EXCEPT !.call = "none", !.parts[Len(m.parts)].failed = TRUE]
    [] m.call = "part" /\ m.gen = "prologue" ->
         [m EXCEPT !.gen = "done", !.call = "none"]
    [] m.call = "part" /\ m.gen \in {"headers", "drain"} ->
         throw(m, "unexpected end of stream")
    [] OTHER -> m

\* A generator without the loop after the yield: asked for the next part,
\* it reads header lines at once (C10 must tell it from the code's).
callPartNoDrain(m) ==
  IF m.gen = "start" THEN [m EXCEPT !.gen = "prologue", !.call = "part"]
  ELSE IF m.gen = "yielded" THEN [enterHeaders(m) EXCEPT !.call = "part"]
  ELSE m

\* The consumer asks the generator for the next part.
callPart(m) ==
  IF m.gen = "start" THEN [m EXCEPT !.gen = "prologue", !.call = "part"]
  ELSE IF m.gen = "yielded"
  THEN IF m.parts[Len(m.parts)].done
       THEN [enterHeaders(m) EXCEPT !.call = "part"]
       ELSE [m EXCEPT !.gen = "drain", !.call = "part"]
  ELSE m

\* The first loop of the body iterator's next(): the first buffered chunk
\* with bytes is returned; the empty ones before it are dropped.
RECURSIVE shiftBuffered(_)
shiftBuffered(bufferedChunks) ==
  IF bufferedChunks = << >> THEN [found |-> FALSE, value |-> << >>, rest |-> << >>]
  ELSE IF Len(Head(bufferedChunks)) > 0
  THEN [found |-> TRUE, value |-> Head(bufferedChunks), rest |-> Tail(bufferedChunks)]
  ELSE shiftBuffered(Tail(bufferedChunks))

\* next() of the body iterator of the n-th part yielded.
callBodyAt(m, n) ==
  LET b == shiftBuffered(m.parts[n].bufferedChunks)
  IN IF b.found
     THEN [m EXCEPT !.parts[n].bufferedChunks = b.rest,
                    !.parts[n].received = @ \o b.value]
     ELSE IF m.parts[n].done
     THEN [m EXCEPT !.parts[n].bufferedChunks = << >>, !.parts[n].ended = TRUE]
     ELSE [m EXCEPT !.parts[n].bufferedChunks = << >>, !.call = "body"]

\* The consumer asks the current part's body iterator for the next chunk.
callBody(m) == callBodyAt(m, Len(m.parts))

\* The consumer of iterateMultipart and parseMultipart: it reads every body
\* to its end before it asks for the next part, and stops at the first
\* error.  settle makes its calls until one of them awaits a token (or
\* nothing is left to call).
RECURSIVE settle(_)
settle(m) ==
  IF m.call # "none" THEN m
  ELSE IF m.gen = "start" THEN callPart(m)
  ELSE IF m.gen = "yielded"
  THEN LET part == m.parts[Len(m.parts)]
       IN IF part.failed THEN m
          ELSE IF part.ended THEN callPart(m)
          ELSE settle(callBody(m))
  ELSE m

\* parseMultipart on the tokens a ReadableStreamSearch yields, and then its
\* done.
RECURSIVE runTokens(_, _, _)
\* The run once the consumer's calls are made: s awaits a token, or is over.
runSettled(s, needle, tokens) ==
  IF s.call = "none" THEN s
  ELSE IF tokens = << >> THEN runTokens(onDone(s), needle, << >>)
  ELSE runTokens(onToken(s, needle, Head(tokens)), needle, Tail(tokens))

runTokens(m, needle, tokens) == runSettled(settle(m), needle, tokens)

\* The tokens of ReadableStreamSearch over a stream of one chunk: those of
\* feed, then the tail of end() if it has bytes.
\* The tokens of feed, then the tail of end() if it has bytes.
tokensAndTail(f) ==
  f.tokens \o (IF Len(f.lookbehind) > 0 THEN << Data(f.lookbehind) >> ELSE << >>)

tokensOfOneChunk(needle, payload) == tokensAndTail(feed(needle, << >>, payload))

\* parseMultipart(stream of the one chunk payload, boundary)
parseOneChunk(needle, payload) ==
  runTokens(NewMultipart, needle, tokensOfOneChunk(needle, payload))

\* ------------------------------------------- StreamSearch, driven directly

\* The bytes needles and chunks are made of when the scanner is driven
\* directly (testStreamSearch).
SearchBytes == {97, 98, 99}

RECURSIVE SeqsUpTo(_, _)
SeqsUpTo(S, n) ==
  IF n = 0 THEN {<< >>}
  ELSE LET shorter == SeqsUpTo(S, n - 1)
       IN shorter \cup {Append(s, b) : s \in {t \in shorter : Len(t) = n - 1}, b \in S}

VARIABLES
  sNeedle,      \* StreamSearch._needle
  sLookbehind,  \* StreamSearch._lookbehind
  sFed,         \* every byte fed so far, in order
  sSegments,    \* outchunks of testCase: the Data bytes between the Matches
  sReturned,    \* the tokens the last feed call returned
  sTail,        \* what end() returned
  sEnded        \* end() has been called

searchVars == << sNeedle, sLookbehind, sFed, sSegments, sReturned, sTail, sEnded >>

VARIABLES
  source,        \* the writer of the payload (see fixedBytes)
  fed,           \* the bytes read from the stream so far
  itLookbehind,  \* the lookbehind of the boundary scanner (ReadableStreamSearch._search)
  itTokens,      \* the tokens of the last feed the iterator has still to yield
  itEnded,       \* reader.read() returned done and end() was called
  itLocked,      \* the iterator holds the reader lock of the stream
  mp,            \* the multipart machine under the consumer's calls
  full           \* the same machine under the consumer that reads every body (iterateMultipart)

streamVars == << source, fed, itLookbehind, itTokens, itEnded, itLocked, mp, full >>

VARIABLES
  hOther,   \* the header lines of a block besides its Content-Disposition line
  hDisposition,  \* the block has a Content-Disposition line, its last
  hParams,  \* the pieces written after `Content-Disposition: form-data`
  hResult,  \* streamMultipart after readHeaderLines returned these lines
  given     \* the tokens it.next() has given to readHeaderLines so far

headerVars == << hOther, hDisposition, hParams, hResult, given >>

VARIABLES
  rTokens,  \* the tokens the iterator of a ReadableStreamSearch has yielded
  rChunks,  \* the local `chunks` of chunks(): the Data since the last Match
  rArrays,  \* the arrays arrays() has yielded
  rDone,    \* arrays() has reported done
  rEmpty    \* the chunks of no bytes delivered since the last chunk with bytes

readerVars == << rTokens, rChunks, rArrays, rDone, rEmpty >>

VARIABLES
  eOptions, \* which of filterPart and transformPart the options hold
  eInput,   \* the number of parts the input stream holds
  eNext,    \* the input part the pipeline is at
  eStage,   \* what comes next: "filter", "transform", "close"; then "closed"
  eLog,     \* the results the callbacks returned, in the order of the calls
  eOut      \* what was written: the index of a part, 0 for the close delimiter

emitVars == << eOptions, eInput, eNext, eStage, eLog, eOut >>

vars == << searchVars, streamVars, headerVars, readerVars, emitVars >>

\* No stream is parsed while the scanner is driven directly.
NoStream ==
  /\ source = [plan |-> 1, seg |-> "epi", off |-> 0, free |-> 0, sent |-> << >>]
  /\ fed = << >>
  /\ itLookbehind = << >>
  /\ itTokens = << >>
  /\ itEnded = TRUE
  /\ itLocked = FALSE
  /\ mp = [NewMultipart EXCEPT !.gen = "done"]
  /\ full = [NewMultipart EXCEPT !.gen = "done"]

\* No header block is parsed on its own.
NoHeaders ==
  /\ hOther = << >>
  /\ hDisposition = FALSE
  /\ hParams = << >>
  /\ hResult = NewMultipart
  /\ given = << >>

\* No stream is written by getReadableFormDataStream.
NoEmit ==
  /\ eOptions = [filterPart |-> FALSE, transformPart |-> FALSE]
  /\ eInput = 0
  /\ eNext = 1
  /\ eStage = "closed"
  /\ eLog = << >>
  /\ eOut = << >>

\* No ReadableStreamSearch is iterated by chunks().
NoReader ==
  /\ rTokens = << >>
  /\ rChunks = << >>
  /\ rArrays = << >>
  /\ rDone = FALSE
  /\ rEmpty = 0

\* outchunks after the tokens of one feed call (testCase).
RECURSIVE pushTokens(_, _)
pushTokens(outchunks, tokens) ==
  IF tokens = << >> THEN outchunks
  ELSE LET token == Head(tokens)
           n == Len(outchunks)
       IN pushTokens(IF token.match THEN Append(outchunks, << >>)
                     ELSE [outchunks EXCEPT ![n] = @ \o token.data],
                     Tail(tokens))

\* new StreamSearch(needle)
SearchInit ==
  /\ NoStream
  /\ NoHeaders
  /\ NoReader
  /\ NoEmit
  /\ sNeedle \in {n \in SeqsUpTo(SearchBytes, MaxNeedle) : Len(n) >= 1}
  /\ sLookbehind = << >>
  /\ sFed = << >>
  /\ sSegments = << << >> >>
  /\ sReturned = << >>
  /\ sTail = << >>
  /\ sEnded = FALSE

\* search.feed(chunk)
SearchFeed ==
  /\ ~sEnded
  /\ \E chunk \in SeqsUpTo(SearchBytes, MaxFeedLen) :
       /\ Len(sFed) + Len(chunk) <= MaxFed
       /\ LET r == feed(sNeedle, sLookbehind, chunk)
          IN /\ sLookbehind' = r.lookbehind
             /\ sReturned' = r.tokens
             /\ sSegments' = pushTokens(sSegments, r.tokens)
       /\ sFed' = sFed \o chunk
  /\ UNCHANGED << sNeedle, sTail, sEnded, streamVars, headerVars, readerVars, emitVars >>

\* search.end(), and testCase pushing the tail on the last segment
SearchEnd ==
  /\ ~sEnded
  /\ sTail' = sLookbehind
  /\ sLookbehind' = << >>
  /\ sSegments' = [sSegments EXCEPT ![Len(sSegments)] = @ \o sLookbehind]
  /\ sEnded' = TRUE
  /\ UNCHANGED << sNeedle, sFed, sReturned, streamVars, headerVars, readerVars, emitVars >>

SearchNext == SearchFeed \/ SearchEnd

SpecSearch == SearchInit /\ [][SearchNext]_vars

\* ------------------------------------------------------ the byte source

\* The boundary parameter and the needle streamMultipart makes of it.
Boundary == << 98 >>

Needle == mergeArrays(<< dash, stringToArray(Boundary) >>)

\* The parts the payloads are written from (expectations of
\* testMultipartParser): the first has a name only, the second a name, a
\* filename and a content type.
TestParts ==
  << [name |-> << 97 >>, filename |-> Undefined, contentType |-> Undefined],
     [name |-> << 98 >>, filename |-> << 99 >>, contentType |-> << 100 >>] >>

\* 'Content-Disposition: form-data; name="'
StrDispositionName ==
  << 67, 111, 110, 116, 101, 110, 116, 45, 68, 105, 115, 112, 111, 115, 105, 116, 105, 111, 110, 58,
     32, 102, 111, 114, 109, 45, 100, 97, 116, 97, 59,
     32, 110, 97, 109, 101, 61, 34 >>

\* '; filename="'
StrFilenameParam == << 59, 32, 102, 105, 108, 101, 110, 97, 109, 101, 61, 34 >>

\* 'Content-Type: '
StrContentTypeField == << 67, 111, 110, 116, 101, 110, 116, 45, 84, 121, 112, 101, 58, 32 >>

StrQuote == << 34 >>

\* The header lines multipartPayload writes for a part, joined by CRLF.
partHeader(part) ==
  StrDispositionName \o part.name \o StrQuote
    \o (IF part.filename # Undefined /\ part.filename # << >>
        THEN StrFilenameParam \o part.filename \o StrQuote ELSE << >>)
    \o (IF part.contentType # Undefined /\ part.contentType # << >>
        THEN CRLF \o StrContentTypeField \o part.contentType ELSE << >>)

\* The bytes a payload may hold before the first delimiter, in a body and
\* after the close delimiter.  35 (#) occurs in prologues only.  Payloads
\* written for two parts hold free bytes in their bodies only.
ProBytes == {35, 45}

BodyBytes == {13, 10, 45, 98}

TwoBodyBytes == {13, 10}

EpiBytes == {13, 45}

\* The payload is written segment by segment: "lead" (CRLF), "pro" (free
\* prologue bytes), "delim" (the needle), "after" (the choice after a
\* delimiter), "hdr" (CRLF, the header lines of the next part, CRLF CRLF),
\* "body" (free body bytes), "pre" (the CRLF before a delimiter), "close"
\* (--), "epi" (free epilogue bytes).  The writer is the record
\*   plan  the number of parts the payload may have at most,
\*   seg, off  the segment being written and the bytes written of it,
\*   free  the number of free bytes written so far,
\*   sent  the bodies of the parts written so far.
\* A stream may end anywhere.
fixedBytes(src) ==
  CASE src.seg = "lead" -> CRLF
    [] src.seg = "delim" -> Needle
    [] src.seg = "hdr" ->
         CRLF \o partHeader(TestParts[Len(src.sent) + 1]) \o CRLF \o CRLF
    [] src.seg = "pre" -> CRLF
    [] src.seg = "close" -> dash
    [] OTHER -> << >>

FreeSegments == {"pro", "body", "epi"}

freeBytes(src) ==
  CASE src.seg = "pro" -> IF src.plan = 1 THEN ProBytes ELSE {}
    [] src.seg = "body" -> IF src.plan = 1 THEN BodyBytes ELSE TwoBodyBytes
    [] src.seg = "epi" -> IF src.plan = 1 THEN EpiBytes ELSE {}
    [] OTHER -> {}

\* The number of free bytes a payload may hold.
budget(src) == IF src.plan = 1 THEN MaxFree ELSE MaxFree - 1

\* The segments that may come next where the writer has a choice.
choices(src) ==
  CASE src.seg = "pro" -> {src, [src EXCEPT !.seg = "delim"]}
    [] src.seg = "body" -> {src, [src EXCEPT !.seg = "pre"]}
    [] src.seg = "after" ->
         (IF Len(src.sent) < src.plan THEN {[src EXCEPT !.seg = "hdr"]} ELSE {})
         \cup {[src EXCEPT !.seg = "close"]}
    [] OTHER -> {src}

\* The writer after the last byte of a fixed segment.
afterSegment(src) ==
  CASE src.seg = "lead" -> [src EXCEPT !.seg = "pro", !.off = 0]
    [] src.seg = "delim" -> [src EXCEPT !.seg = "after", !.off = 0]
    [] src.seg = "hdr" ->
         [src EXCEPT !.seg = "body", !.off = 0, !.sent = Append(@, << >>)]
    [] src.seg = "pre" -> [src EXCEPT !.seg = "delim", !.off = 0]
    [] src.seg = "close" -> [src EXCEPT !.seg = "epi", !.off = 0]

\* The next byte the writer may write, with the writer after it.
nextBytes(src) ==
  UNION {
    IF c.seg \in FreeSegments
    THEN {<< b, [c EXCEPT !.free = @ + 1,
                         !.sent = IF c.seg = "body"
                                  THEN [@ EXCEPT ![Len(@)] = Append(@, b)]
                                  ELSE @] >> :
            b \in {x \in freeBytes(c) : c.free < budget(c)}}
    ELSE LET bytes == fixedBytes(c)
         IN {<< bytes[c.off + 1],
                IF c.off + 1 = Len(bytes) THEN afterSegment(c)
                ELSE [c EXCEPT !.off = @ + 1] >>}
    : c \in choices(src)}

\* The chunks of n bytes the writer may write, with the writer after each.
RECURSIVE chunksOf(_, _)
chunksOf(src, n) ==
  IF n = 0 THEN {<< << >>, src >>}
  ELSE UNION {{<< << first[1] >> \o rest[1], rest[2] >> : rest \in chunksOf(first[2], n - 1)} :
                first \in nextBytes(src)}

\* The writers a payload may start from.
NewSource(plan, seg) ==
  [plan |-> plan, seg |-> seg, off |-> 0, free |-> 0, sent |-> << >>]

\* -------------------------------------------------- parsing a stream

\* No scanner is driven directly while a stream is parsed.
NoSearch ==
  /\ sNeedle = Needle
  /\ sLookbehind = << >>
  /\ sFed = << >>
  /\ sSegments = << << >> >>
  /\ sReturned = << >>
  /\ sTail = << >>
  /\ sEnded = TRUE

\* streamMultipart(body, boundary) has been called; nothing has run yet.
Init ==
  /\ NoSearch
  /\ NoHeaders
  /\ NoReader
  /\ NoEmit
  /\ source \in {NewSource(1, "lead"), NewSource(1, "pro")}
                  \cup {NewSource(plan, "lead") : plan \in 2..Len(TestParts)}
  /\ fed = << >>
  /\ itLookbehind = << >>
  /\ itTokens = << >>
  /\ itEnded = FALSE
  /\ itLocked = FALSE
  /\ mp = NewMultipart
  /\ full = settle(NewMultipart)

\* The consumer calls next() on the generator of streamMultipart.
PartNext ==
  /\ mp.call = "none"
  /\ mp.gen \in {"start", "yielded"}
  /\ mp' = callPart(mp)
  /\ UNCHANGED << source, fed, itLookbehind, itTokens, itEnded, itLocked, full,
                  searchVars, headerVars, readerVars, emitVars >>

\* The consumer calls next() on the body iterator of the part it holds.
BodyNext ==
  /\ mp.call = "none"
  /\ mp.gen = "yielded"
  /\ ~mp.parts[Len(mp.parts)].ended
  /\ ~mp.parts[Len(mp.parts)].failed
  /\ mp' = callBody(mp)
  /\ UNCHANGED << source, fed, itLookbehind, itTokens, itEnded, itLocked, full,
                  searchVars, headerVars, readerVars, emitVars >>

\* A call awaits it.next(): the consumer's, or, once its run is over, the
\* one of the consumer that reads every body.
Awaiting ==
  \/ mp.call # "none"
  \/ mp.gen \in {"done", "error"} /\ full.call # "none"

\* The iterator of ReadableStreamSearch has no token left and reads the
\* stream: a chunk arrives and is fed to the scanner.
Read ==
  /\ Awaiting
  /\ itTokens = << >>
  /\ ~itEnded
  /\ \E n \in 1..MaxChunk : \E c \in chunksOf(source, n) :
       LET f == feed(Needle, itLookbehind, c[1])
       IN /\ source' = c[2]
          /\ fed' = fed \o c[1]
          /\ itLookbehind' = f.lookbehind
          /\ itTokens' = f.tokens
  /\ itLocked' = TRUE
  /\ rEmpty' = 0
  /\ UNCHANGED << itEnded, mp, full, rTokens, rChunks, rArrays, rDone,
                  searchVars, headerVars, emitVars >>

\* It reads the stream and the stream is at its end: the tail of end() is
\* the last token, if it has bytes.  (Run for the first time, the iterator
\* takes the reader lock before it reads: so in Read.)
ReadEnd ==
  /\ Awaiting
  /\ itTokens = << >>
  /\ ~itEnded
  /\ itEnded' = TRUE
  /\ itTokens' = IF Len(itLookbehind) > 0 THEN << Data(itLookbehind) >> ELSE << >>
  /\ itLookbehind' = << >>
  /\ itLocked' = TRUE
  /\ UNCHANGED << source, fed, mp, full, searchVars, headerVars, readerVars, emitVars >>

\* it.next() resolves with the next token.
Token ==
  /\ Awaiting
  /\ itTokens # << >>
  /\ mp' = IF mp.call = "none" THEN mp ELSE onToken(mp, Needle, Head(itTokens))
  /\ full' = IF full.call = "none" THEN full
             ELSE settle(onToken(full, Needle, Head(itTokens)))
  /\ itTokens' = Tail(itTokens)
  /\ UNCHANGED << source, fed, itLookbehind, itEnded, itLocked, searchVars, headerVars, readerVars, emitVars >>

\* it.next() resolves with done: the iterator has left its try block, and
\* the finally block has released the reader lock.
Done ==
  /\ Awaiting
  /\ itTokens = << >>
  /\ itEnded
  /\ mp' = IF mp.call = "none" THEN mp ELSE onDone(mp)
  /\ full' = IF full.call = "none" THEN full ELSE settle(onDone(full))
  /\ itLocked' = FALSE
  /\ UNCHANGED << source, fed, itLookbehind, itTokens, itEnded, searchVars, headerVars, readerVars, emitVars >>

Next == PartNext \/ BodyNext \/ Read \/ ReadEnd \/ Token \/ Done

Spec == Init /\ [][Next]_vars

\* The generator has resumed after the yield of the n-th part: a later part
\* was yielded, or the generator is finished.
Past(m, n) == n < Len(m.parts) \/ m.gen \in {"done", "error"}

\* The consumer calls next() on a body iterator it kept from a part the
\* generator is past.  Its closure is done unless the generator threw in
\* the loop after the yield; then nextChunk() awaits the ended iterator.
StaleBodyNext ==
  /\ mp.call = "none"
  /\ \E n \in 1..Len(mp.parts) :
       /\ Past(mp, n)
       /\ ~mp.parts[n].ended
       /\ ~mp.parts[n].failed
       /\ mp' = callBodyAt(mp, n)
  /\ UNCHANGED << source, fed, itLookbehind, itTokens, itEnded, itLocked, full,
                  searchVars, headerVars, readerVars, emitVars >>

NextKept == Next \/ StaleBodyNext

\* The consumers that keep the body iterators of earlier parts.
SpecKept == Init /\ [][NextKept]_vars

\* ------------------------------------------ streams with chunks of no bytes

\* The most chunks of no bytes a stream delivers in a row.
MaxEmpty == 1

\* The iterator of ReadableStreamSearch reads the stream and a chunk of no
\* bytes arrives: it is fed to the scanner like any other, and the iterator
\* yields the tokens of the call, if any.
EmptyRead ==
  /\ Awaiting
  /\ itTokens = << >>
  /\ ~itEnded
  /\ rEmpty < MaxEmpty
  /\ rEmpty' = rEmpty + 1
  /\ fed' = fed \o << >>
  /\ itLookbehind' = feed(Needle, itLookbehind, << >>).lookbehind
  /\ itTokens' = feed(Needle, itLookbehind, << >>).tokens
  /\ itLocked' = TRUE
  /\ UNCHANGED << source, itEnded, mp, full, rTokens, rChunks, rArrays, rDone,
                  searchVars, headerVars, emitVars >>

NextEmpty == Next \/ EmptyRead

\* The streams that deliver chunks of no bytes among the others.
SpecEmpty == Init /\ [][NextEmpty]_vars

\* ------------------------------------------------ header blocks on their own

\* The most pieces written after `form-data` in a Content-Disposition line.
MaxPieces == 6

\* 'Content-Disposition: form-data'
StrDispositionFormData ==
  << 67, 111, 110, 116, 101, 110, 116, 45, 68, 105, 115, 112, 111, 115, 105, 116, 105, 111, 110, 58, 32, 102, 111, 114, 109, 45, 100, 97, 116, 97 >>

\* What a Content-Disposition line is continued with: `;name`, `;`, `=`,
\* `"`, `\` and `a`.
Pieces == {<< 59 >> \o KeyName, << 59 >>, << 61 >>, << 34 >>, << 92 >>, << 97 >>}

\* Header lines besides the Content-Disposition line: none, or a content
\* type.
OtherLines == {<< >>, << StrContentTypeField \o << 100 >> >>}

\* The lines readHeaderLines returns for such a block, as byte arrays.
blockLines(other, disposition, params) ==
  IF disposition THEN Append(other, StrDispositionFormData \o mergeArrays(params))
  ELSE other

\* streamMultipart in readHeaderLines, the consumer awaiting the part.
InHeaders == [enterHeaders(NewMultipart) EXCEPT !.call = "part"]

\* readHeaderLines returns the lines with nothing after the blank line.
linesRead(other, disposition, params) ==
  yieldPart(InHeaders, blockLines(other, disposition, params), << >>)

HeadersInit ==
  /\ NoSearch
  /\ NoStream
  /\ NoReader
  /\ NoEmit
  /\ given = << >>
  /\ hOther \in OtherLines
  /\ hDisposition \in BOOLEAN
  /\ hParams = << >>
  /\ hResult = linesRead(hOther, hDisposition, hParams)

\* The same block with one more piece on its Content-Disposition line.
HeadersExtend ==
  /\ hDisposition
  /\ Len(hParams) < MaxPieces
  /\ \E piece \in Pieces :
       /\ hParams' = Append(hParams, piece)
       /\ hResult' = linesRead(hOther, hDisposition, hParams')
  /\ UNCHANGED << hOther, hDisposition, given, searchVars, streamVars, readerVars, emitVars >>

HeadersNext == HeadersExtend

SpecHeaders == HeadersInit /\ [][HeadersNext]_vars

\* ------------------------------------------- readHeaderLines on its tokens

\* The most tokens given to one call of readHeaderLines.
MaxTokens == 5

\* 'Content-Disposition: form-data; name=a'
StrDispositionLine ==
  StrDispositionFormData \o << 59, 32 >> \o KeyName \o << 61, 97 >>

\* The tokens the iterator gives: a Match, or the bytes of a line break, of
\* a Content-Disposition line (once in a block), of `a:`, of `--`, of `--a`.
DispositionToken == Data(stringToArray(StrDispositionLine))

HeaderTokens ==
  {MATCH, Data(CRLF), DispositionToken, Data(<< 97, 58 >>), Data(dash),
   Data(dash \o << 97 >>)}

\* The first Match has been read by the prologue loop and readHeaderLines
\* has been called for the first part.
TokensInit ==
  /\ NoSearch
  /\ NoReader
  /\ NoEmit
  /\ source = [plan |-> 1, seg |-> "epi", off |-> 0, free |-> 0, sent |-> << >>]
  /\ fed = << >>
  /\ itLookbehind = << >>
  /\ itTokens = << >>
  /\ itEnded = FALSE
  /\ itLocked = TRUE
  /\ mp = InHeaders
  /\ full = [NewMultipart EXCEPT !.gen = "done"]
  /\ hOther = << >>
  /\ hDisposition = FALSE
  /\ hParams = << >>
  /\ hResult = NewMultipart
  /\ given = << >>

\* it.next() in readHeaderLines resolves with a token.
HeaderToken ==
  /\ mp.gen = "headers"
  /\ Len(given) < MaxTokens
  /\ \E token \in HeaderTokens :
       /\ token = DispositionToken => \A i \in 1..Len(given) : given[i] # token
       /\ mp' = headerToken(mp, Needle, token)
       /\ given' = Append(given, token)
  /\ UNCHANGED << source, fed, itLookbehind, itTokens, itEnded, itLocked, full,
                  hOther, hDisposition, hParams, hResult, searchVars, readerVars, emitVars >>

\* it.next() in readHeaderLines resolves with done.
HeaderDone ==
  /\ mp.gen = "headers"
  /\ ~itEnded
  /\ itEnded' = TRUE
  /\ mp' = onDone(mp)
  /\ itLocked' = FALSE
  /\ UNCHANGED << source, fed, itLookbehind, itTokens, full, given,
                  hOther, hDisposition, hParams, hResult, searchVars, readerVars, emitVars >>

TokensNext == HeaderToken \/ HeaderDone

SpecTokens == TokensInit /\ [][TokensNext]_vars

\* ------------------------------------- ReadableStreamSearch under arrays()

\* The bytes of the streams searched through arrays().
ArraysBytes == {97, 98}

tailTokensAlways(lookbehind) == << Data(lookbehind) >>

\* const tail = this._search.end(); if (tail.length) yield tail
tailTokens(lookbehind) ==
  IF Len(lookbehind) > 0 THEN << Data(lookbehind) >> ELSE << >>

\* new ReadableStreamSearch(needle, stream).arrays(): nothing has run yet.
ArraysInit ==
  /\ NoHeaders
  /\ sNeedle \in {n \in SeqsUpTo(ArraysBytes, MaxNeedle) : Len(n) >= 1}
  /\ sLookbehind = << >>
  /\ sFed = << >>
  /\ sSegments = << << >> >>
  /\ sReturned = << >>
  /\ sTail = << >>
  /\ sEnded = TRUE
  /\ source = [plan |-> 1, seg |-> "epi", off |-> 0, free |-> 0, sent |-> << >>]
  /\ fed = << >>
  /\ itLookbehind = << >>
  /\ itTokens = << >>
  /\ itEnded = FALSE
  /\ itLocked = FALSE
  /\ mp = [NewMultipart EXCEPT !.gen = "done"]
  /\ full = [NewMultipart EXCEPT !.gen = "done"]
  /\ rTokens = << >>
  /\ rChunks = << >>
  /\ rArrays = << >>
  /\ rDone = FALSE
  /\ rEmpty = 0
  /\ NoEmit

\* reader.read() gives a chunk (an empty one too), fed to the scanner.
ArraysRead ==
  /\ ~rDone
  /\ itTokens = << >>
  /\ ~itEnded
  /\ \E chunk \in SeqsUpTo(ArraysBytes, MaxFeedLen) :
       /\ Len(fed) + Len(chunk) <= MaxFed
       /\ fed' = fed \o chunk
       /\ itTokens' = feed(sNeedle, itLookbehind, chunk).tokens
       /\ itLookbehind' = feed(sNeedle, itLookbehind, chunk).lookbehind
  /\ itLocked' = TRUE
  /\ UNCHANGED << source, itEnded, mp, full, searchVars, headerVars, readerVars, emitVars >>

\* reader.read() gives done: the tail of end() is the last token, if it
\* has bytes.
ArraysReadEnd ==
  /\ ~rDone
  /\ itTokens = << >>
  /\ ~itEnded
  /\ itEnded' = TRUE
  /\ itTokens' = tailTokens(itLookbehind)
  /\ itLookbehind' = << >>
  /\ itLocked' = TRUE
  /\ UNCHANGED << source, fed, mp, full, searchVars, headerVars, readerVars, emitVars >>

\* The iterator yields a token to chunks(): on a Match chunks() yields its
\* list and arrays() the merged list; a Data token is pushed on the list.
ArraysToken ==
  /\ itTokens # << >>
  /\ rTokens' = Append(rTokens, Head(itTokens))
  /\ itTokens' = Tail(itTokens)
  /\ IF Head(itTokens).match
     THEN /\ rArrays' = Append(rArrays, mergeArrays(rChunks))
          /\ rChunks' = << >>
     ELSE /\ rChunks' = Append(rChunks, Head(itTokens).data)
          /\ rArrays' = rArrays
  /\ UNCHANGED << source, fed, itLookbehind, itEnded, itLocked, mp, full, rDone, rEmpty,
                  searchVars, headerVars, emitVars >>

\* The iterator returns: its finally block releases the lock, chunks()
\* yields the last list and arrays() the merged list.
ArraysLast ==
  /\ itTokens = << >>
  /\ itEnded
  /\ itLocked
  /\ itLocked' = FALSE
  /\ rArrays' = Append(rArrays, mergeArrays(rChunks))
  /\ rChunks' = << >>
  /\ UNCHANGED << source, fed, itLookbehind, itTokens, itEnded, mp, full, rTokens, rDone, rEmpty,
                  searchVars, headerVars, emitVars >>

\* The next() after the last array: chunks() and arrays() return.
ArraysDone ==
  /\ itEnded
  /\ ~itLocked
  /\ ~rDone
  /\ rDone' = TRUE
  /\ UNCHANGED << rTokens, rChunks, rArrays, rEmpty, searchVars, streamVars, headerVars,
                  emitVars >>

ArraysNext == ArraysRead \/ ArraysReadEnd \/ ArraysToken \/ ArraysLast \/ ArraysDone

SpecArrays == ArraysInit /\ [][ArraysNext]_vars

\* ------------------------------------------------ getReadableFormDataStream

\* The most parts an input stream holds.
MaxParts == 3

\* What filterPart returns, { ok, stop? }; without a filter every part is
\* kept.
FilterResults(has) ==
  IF has THEN [ok : BOOLEAN, stop : BOOLEAN] ELSE {[ok |-> TRUE, stop |-> FALSE]}

\* What transformPart resolves with, { part, stop? }: part is FALSE for
\* null; without a transform the part goes on as it is.
TransformResults(has) ==
  IF has THEN [part : BOOLEAN, stop : BOOLEAN] ELSE {[part |-> TRUE, stop |-> FALSE]}

stageAfterNoStop(stop) == "filter"

\* Where the pipeline goes once a part is disposed of: a stop ends it.
stageAfter(stop) == IF stop THEN "close" ELSE "filter"

\* getReadableFormDataStream(options) on a stream of eInput parts.
EmitInit ==
  /\ NoSearch
  /\ NoStream
  /\ NoHeaders
  /\ NoReader
  /\ eOptions \in [filterPart : BOOLEAN, transformPart : BOOLEAN]
  /\ eInput \in 0..MaxParts
  /\ eNext = 1
  /\ eStage = "filter"
  /\ eLog = << >>
  /\ eOut = << >>

\* The part iterator yields the next part and filterPart is applied: a part
\* that is not ok is drained and skipped.
EmitFilter ==
  /\ eStage = "filter"
  /\ eNext <= eInput
  /\ \E r \in FilterResults(eOptions.filterPart) :
       /\ eLog' = Append(eLog, [call |-> "filter", index |-> eNext,
                                kept |-> r.ok, stop |-> r.stop])
       /\ IF r.ok
          THEN /\ eStage' = "transform"
               /\ eNext' = eNext
          ELSE /\ eStage' = stageAfter(r.stop)
               /\ eNext' = eNext + 1
  /\ UNCHANGED << eOptions, eInput, eOut, searchVars, streamVars, headerVars, readerVars >>

\* transformPart resolves for a part the filter kept: the part it gives is
\* serialized, null is discarded; a stop of the filter or of the transform
\* ends the pipeline after that.
EmitTransform ==
  /\ eStage = "transform"
  /\ \E r \in TransformResults(eOptions.transformPart) :
       /\ eLog' = Append(eLog, [call |-> "transform", index |-> eNext,
                                kept |-> r.part, stop |-> r.stop])
       /\ eOut' = IF r.part THEN Append(eOut, eNext) ELSE eOut
       /\ eStage' = stageAfter(r.stop \/ eLog[Len(eLog)].stop)
  /\ eNext' = eNext + 1
  /\ UNCHANGED << eOptions, eInput, searchVars, streamVars, headerVars, readerVars >>

\* On termination, after a stop or after the last part, the close delimiter
\* is written.
EmitClose ==
  /\ \/ eStage = "close"
     \/ eStage = "filter" /\ eNext > eInput
  /\ eOut' = Append(eOut, 0)
  /\ eStage' = "closed"
  /\ UNCHANGED << eOptions, eInput, eNext, eLog, searchVars, streamVars, headerVars,
                  readerVars >>

EmitNext == EmitFilter \/ EmitTransform \/ EmitClose

SpecEmit == EmitInit /\ [][EmitNext]_vars

\* ----------------------------------------------------- what the claims use

\* The needle occurs in s at the 0-based offset i.
OccursAt(s, needle, i) ==
  /\ i + Len(needle) <= Len(s)
  /\ \A k \in 1..Len(needle) : s[i + k] = needle[k]

Contains(s, needle) == \E i \in 0..Len(s) : OccursAt(s, needle, i)

\* s split on the leftmost, non-overlapping occurrences of the needle.
RECURSIVE SplitOn(_, _)
SplitOn(s, needle) ==
  IF ~Contains(s, needle) THEN << s >>
  ELSE LET i == CHOOSE i \in 0..Len(s) :
                  /\ OccursAt(s, needle, i)
                  /\ \A j \in 0..(i - 1) : ~OccursAt(s, needle, j)
       IN << SubSeq(s, 1, i) >> \o SplitOn(SliceFrom(s, i + Len(needle)), needle)

RECURSIVE SumLen(_)
SumLen(seqs) == IF seqs = << >> THEN 0 ELSE Len(Head(seqs)) + SumLen(Tail(seqs))

\* C2: once end() has been called, the segments between the Matches (the
\* tail of end() on the last one) are the input split on the leftmost
\* non-overlapping occurrences of the needle, however the input was cut.
C2_SegmentsAreSplit == sEnded => sSegments = SplitOn(sFed, sNeedle)

\* An occurrence of the needle that straddles two chunks was fed and
\* reported as one Match.
C2_Witness ==
  /\ sEnded
  /\ Len(sNeedle) >= 2
  /\ Len(sSegments) = 2
  /\ sReturned # << >> /\ sReturned[1].match
  /\ sSegments[1] # << >>

\* C3: Data lengths + Matches * needle length + lookbehind length is the
\* number of bytes fed; after end() the tail stands for the lookbehind (it is
\* in the last segment).
C3_ByteConservation ==
  SumLen(sSegments) + (Len(sSegments) - 1) * Len(sNeedle) + Len(sLookbehind)
    = Len(sFed)

\* Bytes were returned, a Match was reported, and bytes are held back.
C3_Witness ==
  /\ Len(sSegments) >= 2
  /\ Len(sLookbehind) >= 1
  /\ SumLen(sSegments) >= 1

\* C4: no Data token returned by feed, and no tail returned by end(),
\* contains the needle.
C4_NoNeedleInData ==
  /\ \A i \in 1..Len(sReturned) : ~Contains(sReturned[i].data, sNeedle) \/ sReturned[i].match
  /\ ~Contains(sTail, sNeedle)

\* One feed call returned a Match and a Data token as long as the needle.
C4_Witness ==
  /\ Len(sNeedle) >= 2
  /\ \E i \in 1..Len(sReturned) : sReturned[i].match
  /\ \E i \in 1..Len(sReturned) :
       ~sReturned[i].match /\ Len(sReturned[i].data) >= Len(sNeedle)

\* ------------------------------------------------ claims on parsed streams

\* The run of a consumer is over: it awaits nothing, and the generator has
\* returned or thrown, or the body it was reading has thrown.
Finished(m) ==
  /\ m.call = "none"
  /\ \/ m.gen \in {"done", "error"}
     \/ m.gen = "yielded" /\ m.parts[Len(m.parts)].failed

\* What a run gave: the parts with the body bytes received, and whether it
\* ended normally.
Outcome(m) ==
  [parts |-> [j \in 1..Len(m.parts) |->
                [name |-> m.parts[j].name, filename |-> m.parts[j].filename,
                 contentType |-> m.parts[j].contentType,
                 body |-> m.parts[j].received]],
   normal |-> m.gen = "done"]

\* No written body holds the needle.
BodiesHoldNoNeedle == \A j \in 1..Len(source.sent) : ~Contains(source.sent[j], Needle)

\* C1: however the payload was cut into chunks, the run that reads every
\* body gives the parts and the ending that parsing the same bytes as one
\* single chunk gives.
C1_SameAsOneChunk ==
  Finished(full) => Outcome(full) = Outcome(parseOneChunk(Needle, fed))

\* bytes without one trailing CRLF
stripCRLF(bytes) ==
  IF Len(bytes) >= 2 /\ SubSeq(bytes, Len(bytes) - 1, Len(bytes)) = CRLF
  THEN SubSeq(bytes, 1, Len(bytes) - 2) ELSE bytes

\* The bytes from the end of the header block to the next occurrence of the
\* needle, for a part written with this body (CRLF and a delimiter follow).
InterBoundary(body) == Head(SplitOn(body \o CRLF \o Needle, Needle))

\* C5: the body of every part read to its end is the bytes between the end
\* of its header block and the next occurrence of the needle, less one
\* trailing CRLF.
C5_BodyIsInterBoundary ==
  \A j \in 1..Len(full.parts) :
     full.parts[j].ended /\ j <= Len(source.sent)
       => full.parts[j].received = stripCRLF(InterBoundary(source.sent[j]))

\* The parts j.. serialized as CRLF --boundary CRLF headers CRLF CRLF body,
\* closed by CRLF --boundary--.
RECURSIVE Serialized(_, _)
Serialized(bodies, j) ==
  IF j > Len(bodies) THEN CRLF \o Needle \o dash
  ELSE CRLF \o Needle \o CRLF \o partHeader(TestParts[j]) \o CRLF \o CRLF
         \o bodies[j] \o Serialized(bodies, j + 1)

\* The stream is the serialization of the parts written, whose bodies do not
\* hold the needle.
Conformant ==
  /\ source.seg = "epi"
  /\ fed = Serialized(source.sent, 1)
  /\ BodiesHoldNoNeedle

\* C6: a list of parts serialized in the format of multipartPayload and read
\* by parseMultipart comes back part for part: the same number of parts, in
\* order, each with its name, filename, content type and body bytes, and a
\* normal end.
C6_RoundTrip ==
  Conformant /\ Finished(full)
    => /\ full.gen = "done"
       /\ Len(full.parts) = Len(source.sent)
       /\ \A j \in 1..Len(full.parts) :
            /\ full.parts[j].name = TestParts[j].name
            /\ full.parts[j].filename = TestParts[j].filename
            /\ full.parts[j].contentType = TestParts[j].contentType
            /\ full.parts[j].received = source.sent[j]
            /\ full.parts[j].ended

\* Two parts came back, the first with a CRLF inside its body.
C6_Witness ==
  /\ Conformant
  /\ Finished(full)
  /\ Len(full.parts) = 2
  /\ Contains(full.parts[1].received, CRLF)
  /\ full.parts[2].ended

\* C7: a run ends normally only if the stream held no delimiter at all or
\* held the close delimiter; when the stream ends after a delimiter and
\* without a close delimiter, the run that reads every body ends with the
\* error "unexpected end of stream", thrown by the generator or by the body
\* being read.
C7_EofIsError ==
  /\ \A m \in {mp, full} :
       m.gen = "done" => ~Contains(fed, Needle) \/ Contains(fed, Needle \o dash)
  /\ /\ itEnded /\ itTokens = << >> /\ full.call = "none"
     /\ Contains(fed, Needle) /\ ~Contains(fed, Needle \o dash)
     => \/ full.gen = "error" /\ full.error = "unexpected end of stream"
        \/ full.gen = "yielded" /\ full.parts[Len(full.parts)].failed

\* The stream ended inside a body of which some bytes had been received.
C7_Witness ==
  /\ itEnded
  /\ full.call = "none"
  /\ full.gen = "yielded"
  /\ full.parts[Len(full.parts)].failed
  /\ full.parts[Len(full.parts)].received # << >>
  /\ ~Contains(fed, Needle \o dash)

\* C8: once the close delimiter has been written, the run that reads every
\* body ends normally with the parts written and no more, and their bodies
\* are the bodies written, whatever follows and however it was cut.
C8_EndsAfterClose ==
  source.seg = "epi" /\ BodiesHoldNoNeedle /\ Finished(full)
    => /\ full.gen = "done"
       /\ Len(full.parts) = Len(source.sent)
       /\ \A j \in 1..Len(full.parts) : full.parts[j].received = source.sent[j]

\* The byte # (written in prologues only) occurs in bytes.
HoldsPrologueByte(bytes) == Contains(bytes, << 35 >>)

\* C9: no byte of the prologue reaches a part: the prologue's own byte is in
\* no name, filename, content type, body chunk or header line, and when the
\* first Match has been taken the header reader and the body scanner start
\* from nothing.
C9_PrologueDiscarded ==
  /\ \A j \in 1..Len(mp.parts) :
       /\ ~HoldsPrologueByte(mp.parts[j].name)
       /\ ~HoldsPrologueByte(mp.parts[j].filename)
       /\ ~HoldsPrologueByte(mp.parts[j].contentType)
       /\ ~HoldsPrologueByte(mp.parts[j].received)
       /\ ~HoldsPrologueByte(mergeArrays(mp.parts[j].bufferedChunks))
  /\ ~HoldsPrologueByte(mergeArrays(mp.headerLines))
  /\ mp.gen = "headers" /\ mp.parts = << >> /\ mp.firstChunk
       => /\ mp.headerLines = << << >> >>
          /\ mp.hLookbehind = << >>
          /\ mp.cLookbehind = << >>

\* A stream with a prologue of its own gave a part with a body.
C9_Witness ==
  /\ HoldsPrologueByte(fed)
  /\ Len(mp.parts) = 1
  /\ mp.parts[1].received # << >>
  /\ mp.parts[1].ended

\* The body bytes of a part its consumer has or can still have.
Available(part) == part.received \o mergeArrays(part.bufferedChunks)

\* C10: whatever the consumer read of each body before it asked for the next
\* part, it is given the parts that the consumer reading every body to its
\* end is given: as many, with the same name, filename and content type, and
\* each with the same body bytes (received, or kept for it unread).
C10_SkippingChangesNothing ==
  /\ Len(mp.parts) = Len(full.parts)
  /\ \A j \in 1..Len(mp.parts) :
       /\ mp.parts[j].name = full.parts[j].name
       /\ mp.parts[j].filename = full.parts[j].filename
       /\ mp.parts[j].contentType = full.parts[j].contentType
       /\ Available(mp.parts[j]) = full.parts[j].received

\* The first part was left with bytes unread, and the second was read.
C10_Witness ==
  /\ Len(mp.parts) = 2
  /\ ~mp.parts[1].ended
  /\ mp.parts[1].received = << >>
  /\ mergeArrays(mp.parts[1].bufferedChunks) # << >>
  /\ mp.parts[2].ended
  /\ mp.parts[2].received # << >>

\* --------------------------------------------------- claims on the tokens

\* C19: no Data token returned by feed is empty.
C19_DataNonEmpty ==
  \A i \in 1..Len(sReturned) : sReturned[i].match \/ Len(sReturned[i].data) > 0

\* The segments with the needle written between them.
RECURSIVE joinSegments(_, _)
joinSegments(segments, needle) ==
  IF Len(segments) = 1 THEN Head(segments)
  ELSE Head(segments) \o needle \o joinSegments(Tail(segments), needle)

\* C20: the tokens emitted so far, in the order of their emission, with the
\* needle written for each Match, followed by the lookbehind, are the bytes
\* fed so far.
C20_TokensInStreamOrder ==
  joinSegments(sSegments, sNeedle) \o sLookbehind = sFed

\* Bytes were emitted before a Match and after it, over several feed calls,
\* and some more are held back.
C20_Witness ==
  /\ ~sEnded
  /\ Len(sSegments) >= 2
  /\ sSegments[1] # << >>
  /\ sSegments[Len(sSegments)] # << >>
  /\ sLookbehind # << >>
  /\ Len(sFed) = MaxFed

\* ----------------------------------------------- claims on header blocks

\* Two Match tokens were given to readHeaderLines one after the other.
DoubleMatch ==
  \E i \in 1..(Len(given) - 1) : given[i].match /\ given[i + 1].match

\* C15: a header block in which two Match tokens follow each other yields
\* no part.
C15_DoubleMatchYieldsNothing == DoubleMatch => mp.gen # "yielded"

\* The bytes the tokens stand for, the needle for a Match.
givenBytes(tokens) ==
  mergeArrays([i \in 1..Len(tokens) |->
                 IF tokens[i].match THEN Needle ELSE tokens[i].data])

\* The header block of these bytes: what precedes the first blank line (two
\* line breaks in a row), all of them if there is none.
headerBlock(bytes) == Head(SplitOn(bytes, CRLF \o CRLF))

\* A line of the block is a Content-Disposition header.
HasDisposition(block) ==
  \E i \in 1..Len(SplitOn(block, CRLF)) :
     /\ indexOf(SplitOn(block, CRLF)[i], 58) >= 0
     /\ toLowerCase(trim(Slice(SplitOn(block, CRLF)[i], 0,
                               indexOf(SplitOn(block, CRLF)[i], 58))))
          = StrContentDisposition

\* C16: a part is yielded only from a header block with a
\* Content-Disposition line; once a block without one is complete (the empty
\* block too), streamMultipart has thrown and has yielded nothing, unless the
\* block was taken for the end of the payload.
C16_NoDispositionIsError ==
  /\ mp.gen = "yielded" => HasDisposition(headerBlock(givenBytes(given)))
  /\ /\ Contains(givenBytes(given), CRLF \o CRLF)
     /\ ~HasDisposition(headerBlock(givenBytes(given)))
     /\ mp.gen # "done"
     => mp.gen = "error" /\ mp.parts = << >>

\* The boundary was followed by CRLF CRLF at once, and parsePartHeaders
\* threw on the empty list of lines.
C16_Witness ==
  /\ given = << Data(CRLF), Data(CRLF) >>
  /\ mp.gen = "error"
  /\ mp.error = "missing content-disposition"
  /\ mp.parts = << >>

\* C17: every yielded part has a name that is not empty; a
\* Content-Disposition line `form-data`, `form-data;name=` or
\* `form-data;name=""` makes streamMultipart throw and yield nothing.
C17_NameNotEmpty ==
  /\ \A i \in 1..Len(hResult.parts) : hResult.parts[i].name \notin {Undefined, << >>}
  /\ /\ hDisposition
     /\ mergeArrays(hParams) \in {<< >>, << 59 >> \o KeyName \o << 61 >>,
                                  << 59 >> \o KeyName \o << 61, 34, 34 >>}
     => /\ hResult.gen = "error"
        /\ hResult.error = "missing field name"
        /\ hResult.parts = << >>

\* The line `Content-Disposition: form-data;name=""` was parsed.
C17_Witness ==
  /\ hDisposition
  /\ hOther = << >>
  /\ mergeArrays(hParams) = << 59 >> \o KeyName \o << 61, 34, 34 >>
  /\ hResult.error = "missing field name"

\* The backslashes right before position i of s are an even number.
RECURSIVE evenBackslashes(_, _)
evenBackslashes(s, i) ==
  IF i <= 1 \/ s[i - 1] # 92 THEN TRUE ELSE ~evenBackslashes(s, i - 1)

\* The raw value opens with a double quote, and no double quote after it is
\* unescaped.
unclosedQuote(rawValue) ==
  /\ rawValue # << >>
  /\ rawValue[1] = 34
  /\ \A i \in 2..Len(rawValue) : rawValue[i] # 34 \/ ~evenBackslashes(rawValue, i)

\* The parameter has no `=`, or a value with an unclosed quote.
malformedParam(param) ==
  \/ indexOf(param, 61) < 0
  \/ unclosedQuote(SliceFrom(param, indexOf(param, 61) + 1))

\* The parameters of the Content-Disposition line: what the semicolons
\* outside quotes separate, after the first item.
paramsOf(pieces) == Tail(splitSemis(StrFormData \o mergeArrays(pieces)))

\* C18: a Content-Disposition line with a malformed parameter makes
\* streamMultipart throw.
C18_MalformedParamIsError ==
  /\ hDisposition
  /\ \E i \in 1..Len(paramsOf(hParams)) : malformedParam(paramsOf(hParams)[i])
  => hResult.gen = "error"

\* ------------------------------------------------ claims on the reads

\* C12: whenever the generator, asked for a part, has used up the tokens of
\* the chunks read so far, so that its next step is to read the source
\* again, every header block that is complete in the bytes read has had its
\* part yielded.
C12_YieldedWithoutReadingOn ==
  mp.call = "part" /\ itTokens = << >> => Len(source.sent) <= Len(mp.parts)

\* The last byte read is the end of the second part's header block, and the
\* second part has been yielded.
C12_Witness ==
  /\ mp.gen = "yielded"
  /\ mp.call = "none"
  /\ Len(mp.parts) = 2
  /\ Len(source.sent) = 2
  /\ source.seg = "body"
  /\ source.sent[2] = << >>
  /\ itTokens = << >>

\* ----------------------------------------------- claims on skipped bodies

\* C11: once a later part has been yielded, no call hands the consumer more
\* bytes of a part's body.
C11_PastBodyIsOver ==
  [][\A n \in 1..(Len(mp.parts) - 1) :
       mp'.parts[n].received = mp.parts[n].received]_vars

\* C13: a part holds no bytes besides those of the one chunk it was yielded
\* with: what the loop after the yield reads of a skipped body is not kept.
C13_NothingRetained ==
  \A n \in 1..Len(mp.parts) :
     \A k \in 2..Len(mp.parts[n].bufferedChunks) : mp.parts[n].bufferedChunks[k] = << >>

\* -------------------------------------------- claims on the reader lock

\* C14: once the generator of streamMultipart has returned or thrown, the
\* reader lock of the stream is released.
C14_LockReleasedAtEnd ==
  mp.gen \in {"done", "error"} /\ mp.call = "none" => ~itLocked

\* ------------------------------------------------ claims on the lookbehind

\* The longest suffix of s that is a proper prefix of the needle.
longestHeld(s, needle) ==
  LET fits == {n \in 0..Len(s) :
                 /\ n < Len(needle)
                 /\ SubSeq(s, Len(s) - n + 1, Len(s)) = SubSeq(needle, 1, n)}
  IN SubSeq(s, Len(s) - (CHOOSE n \in fits : \A k \in fits : k <= n) + 1, Len(s))

\* The bytes fed since the last Match.
sinceMatch(s, needle) == SplitOn(s, needle)[Len(SplitOn(s, needle))]

\* C21: after every feed call the lookbehind is the longest suffix of the
\* bytes fed since the last Match that is a proper prefix of the needle, and
\* the bytes before it have been emitted: the Data after the last Match and
\* the lookbehind are the bytes fed since that Match.
C21_LookbehindIsLongestPrefix ==
  ~sEnded =>
    /\ sLookbehind = longestHeld(sinceMatch(sFed, sNeedle), sNeedle)
    /\ sSegments[Len(sSegments)] \o sLookbehind = sinceMatch(sFed, sNeedle)

\* A feed call cut the front of the lookbehind off as Data and kept the
\* rest with the chunk, two bytes of a needle of three.
C21_Witness ==
  /\ ~sEnded
  /\ Len(sNeedle) = 3
  /\ Len(sLookbehind) = 2
  /\ Len(sReturned) = 1
  /\ ~sReturned[1].match
  /\ sReturned[1].data # << >>
  /\ Len(sFed) >= 4

\* C22: the lookbehind is never longer than the needle.
C22_LookbehindBounded == Len(sLookbehind) <= Len(sNeedle)

\* A feed call returned nothing and left a lookbehind one byte shorter than
\* the longest needle.
C22_Witness ==
  /\ Len(sNeedle) = MaxNeedle
  /\ Len(sLookbehind) = MaxNeedle - 1
  /\ sReturned = << >>
  /\ Len(sSegments) >= 2

\* The bytes a list of tokens stands for: the needle for a Match.
RECURSIVE joinTokens(_, _)
joinTokens(tokens, needle) ==
  IF tokens = << >> THEN << >>
  ELSE (IF Head(tokens).match THEN needle ELSE Head(tokens).data)
         \o joinTokens(Tail(tokens), needle)

matches(tokens) == Cardinality({i \in 1..Len(tokens) : tokens[i].match})

\* C23: the tokens a ReadableStreamSearch yields are, in order, the bytes
\* read from the stream with a Match for each needle; after the end of the
\* stream the only token is the tail, and it has bytes; once arrays() has
\* reported done it has yielded the runs between the matches, the first
\* and the last included, which are one more than the matches, no token is
\* left and the lock is released.
C23_SegmentsAreMatchesPlusOne ==
  /\ joinTokens(rTokens \o itTokens, sNeedle) \o itLookbehind = fed
  /\ itEnded /\ itTokens # << >> =>
       /\ Len(itTokens) = 1
       /\ ~itTokens[1].match
       /\ itTokens[1].data # << >>
  /\ rDone =>
       /\ itTokens = << >>
       /\ rChunks = << >>
       /\ Len(rArrays) = matches(rTokens) + 1
       /\ rArrays = SplitOn(fed, sNeedle)

\* arrays() is done after two matches, the second at the very end of the
\* stream, and a tail was yielded before the stream was known to end.
C23_Witness ==
  /\ rDone
  /\ matches(rTokens) = 2
  /\ rArrays[3] = << >>
  /\ rArrays[1] # << >>
  /\ Len(sNeedle) = 2

\* testReadableStreamSearch: a stream that ends inside a partial match
\* yields the held bytes as the tail.
C23_WitnessTail ==
  /\ rDone
  /\ matches(rTokens) = 0
  /\ Len(rTokens) = 2
  /\ rArrays = << fed >>

\* ------------------------------------------------- claims on parse errors

\* C24: once the generator of streamMultipart has thrown it yields no
\* further part, and no call on the body iterator of the part whose body
\* was cut short hands the consumer data or done.
C24_ErrorSurfacesOnNextPull ==
  [][mp.gen = "error" =>
       /\ mp'.gen = "error"
       /\ Len(mp'.parts) = Len(mp.parts)
       /\ \A n \in {Len(mp.parts)} \ {0} :
            ~mp.parts[n].done =>
              /\ mp'.parts[n].received = mp.parts[n].received
              /\ ~mp'.parts[n].ended]_vars

\* ------------------------------------------------ claims on empty chunks

\* C25: a chunk of no bytes gives no token and leaves the lookbehind as it
\* was, and so changes nothing of what streamMultipart has yielded or will
\* yield: the parts, their bodies and the calls that wait are as before it.
C25_EmptyChunkChangesNothing ==
  [][rEmpty' > rEmpty =>
       /\ itTokens' = << >>
       /\ itLookbehind' = itLookbehind
       /\ fed' = fed
       /\ mp' = mp
       /\ full' = full]_vars

\* A chunk of no bytes arrived while the scanner held back the start of a
\* delimiter inside a body, and the body was read to its end afterwards.
C25_Witness ==
  /\ rEmpty = 1
  /\ Len(mp.parts) = 1
  /\ mp.parts[1].ended
  /\ mp.parts[1].received # << >>
  /\ full.gen = "done"

\* ------------------------------------------- claims on the part descriptor

\* The lines of a header block: the line break that ends the delimiter line
\* leaves an empty line before them, which is none of them.
nonEmpty(line) == Len(line) > 0

linesOf(block) == SelectSeq(SplitOn(block, CRLF), nonEmpty)

\* C26: the part yielded from a header block has the property headerLines,
\* and its value is the lines of the block, in their order and as they were
\* received.
C26_PartCarriesHeaderLines ==
  mp.gen = "yielded" =>
    /\ hasProperty(mp.parts[1].descriptor, KeyHeaderLines)
    /\ getProperty(mp.parts[1].descriptor, KeyHeaderLines)
         = linesOf(headerBlock(givenBytes(given)))

\* The name of the header of a line, and its value.
headerOf(line) == toLowerCase(trim(Slice(line, 0, indexOf(line, 58))))

valueOf(line) == trim(SliceFrom(line, indexOf(line, 58) + 1))

\* C27: the part yielded from a header block has, for every line of the
\* block that is neither Content-Disposition nor Content-Type, a property
\* named by the lowercased header name, whose value is the value of the line.
C27_OtherHeadersKept ==
  mp.gen = "yielded" =>
    \A i \in 1..Len(linesOf(headerBlock(givenBytes(given)))) :
       LET line == linesOf(headerBlock(givenBytes(given)))[i]
       IN /\ indexOf(line, 58) >= 0
          /\ headerOf(line) \notin {StrContentDisposition, StrContentType}
          =>
            /\ hasProperty(mp.parts[1].descriptor, headerOf(line))
            /\ getProperty(mp.parts[1].descriptor, headerOf(line)) = valueOf(line)

\* -------------------------------------------- claims on the re-emit pipeline

\* The input part k was kept: the filter found it ok and the transform gave
\* a part for it.
keptPart(k) ==
  /\ \E i \in 1..Len(eLog) :
       eLog[i].call = "filter" /\ eLog[i].index = k /\ eLog[i].kept
  /\ \E i \in 1..Len(eLog) :
       eLog[i].call = "transform" /\ eLog[i].index = k /\ eLog[i].kept

\* C28: a part is written only if it was kept and only if no result with
\* stop was returned for an earlier part; the parts written are in input
\* order, none twice; the close delimiter is written once and last, and
\* when it is written every kept part has been written before it.
C28_KeptPartsThenClose ==
  /\ \A i \in 1..Len(eOut) :
       eOut[i] # 0 =>
         /\ keptPart(eOut[i])
         /\ \A j \in 1..Len(eLog) : eLog[j].stop => eOut[i] <= eLog[j].index
  /\ \A i, j \in 1..Len(eOut) :
       i < j /\ eOut[j] # 0 => eOut[i] # 0 /\ eOut[i] < eOut[j]
  /\ eStage = "closed" <=> (eOut # << >> /\ eOut[Len(eOut)] = 0)
  /\ eStage = "closed" => \A k \in 1..eInput : keptPart(k) => \E i \in 1..Len(eOut) : eOut[i] = k

\* Of three parts the first was written, the second was kept by the filter
\* and discarded by a transform that asked to stop, and the third never
\* reached the output.
C28_Witness ==
  /\ eStage = "closed"
  /\ eInput = 3
  /\ eOut = << 1, 0 >>
  /\ Len(eLog) = 4
  /\ eLog[4] = [call |-> "transform", index |-> 2, kept |-> FALSE, stop |-> TRUE]

\* ------------------------------------------------ claims on the held CRLF

\* The bytes written after the header block of the last part written, while
\* no delimiter after them is complete.
bodyWire(src) ==
  src.sent[Len(src.sent)]
    \o (CASE src.seg = "pre" -> SubSeq(CRLF, 1, src.off)
          [] src.seg = "delim" -> CRLF \o SubSeq(Needle, 1, src.off)
          [] OTHER -> << >>)

\* The part being streamed is the last one written, and the needle does not
\* occur after its header block.
Streaming ==
  /\ mp.gen \in {"yielded", "drain"}
  /\ Len(mp.parts) = Len(source.sent)
  /\ source.seg \in {"body", "pre", "delim"}
  /\ ~Contains(bodyWire(source), Needle)

\* C29: while a body is streamed and no delimiter has arrived, the bytes
\* handed on for the part, then a CRLF if trailingCRLF is set, then the
\* lookbehind of crlfSearch, then what the boundary scanner has not given
\* yet, are the bytes written after the header block; and the bytes handed
\* on for a part that is done are the bytes between the header block and
\* the delimiter less the one CRLF before the delimiter.
C29_OneCRLFWithheld ==
  /\ Streaming =>
       Available(mp.parts[Len(mp.parts)])
         \o (IF mp.parts[Len(mp.parts)].trailingCRLF THEN CRLF ELSE << >>)
         \o mp.cLookbehind
         \o joinTokens(itTokens, Needle)
         \o itLookbehind
       = bodyWire(source)
  /\ \A n \in 1..Len(mp.parts) :
       mp.parts[n].done /\ ~Contains(source.sent[n], Needle)
         => Available(mp.parts[n]) = source.sent[n]

\* Two line breaks in a row ended the body so far: the first was handed on,
\* the second is withheld.
C29_Witness ==
  /\ Streaming
  /\ itTokens = << >>
  /\ bodyWire(source) = CRLF \o CRLF
  /\ mp.parts[Len(mp.parts)].trailingCRLF
  /\ Available(mp.parts[Len(mp.parts)]) = CRLF

\* The delimiter arrived after two line breaks: the body is the first.
C29_WitnessDropped ==
  /\ Len(mp.parts) = 2
  /\ mp.parts[2].done
  /\ source.sent[2] = CRLF
  /\ Available(mp.parts[2]) = CRLF

\* ------------------------------------------- claims on the order of parts

\* C30: the generator reads a header block only when the body of the part
\* before it is done, so every part but the last is done; suspended at a
\* yield it goes on only when the consumer asks it for the next part; and
\* while it is suspended a token is taken from the scanner only by a call
\* on the body iterator of a part that is not done.
C30_NextPartWaits ==
  /\ [](/\ \A k \in 1..(Len(mp.parts) - 1) : mp.parts[k].done
        /\ mp.gen = "headers" /\ mp.parts # << >> => mp.parts[Len(mp.parts)].done)
  /\ [][mp.gen = "yielded" =>
          /\ mp'.gen # "yielded" => mp.call = "none" /\ mp'.call = "part"
          /\ itTokens # << >> /\ itTokens' = Tail(itTokens) =>
                mp.call = "body" /\ ~mp.parts[Len(mp.parts)].done]_vars

\* The second part was yielded after the loop after the yield had pulled
\* the body of the first, which the consumer had not read, from the scanner.
C30_Witness ==
  /\ Len(mp.parts) = 2
  /\ mp.gen = "yielded"
  /\ mp.parts[1].done
  /\ mp.parts[1].received = << >>
  /\ Len(mp.parts[1].bufferedChunks) >= 3
  /\ Available(mp.parts[1]) = source.sent[1]

\* --------------------------------------------- claims on the close delimiter

\* C31: when the first token readHeaderLines is given after the boundary
\* Match is Data that begins with `--`, streamMultipart returns: it has
\* yielded no part from the block, has thrown nothing, and reads no further
\* token, whatever follows the two dashes in the token.
C31_DashesEndTheParts ==
  /\ given # << >>
  /\ ~given[1].match
  /\ Slice(given[1].data, 0, 2) = dash
  => /\ mp.gen = "done"
     /\ mp.call = "none"
     /\ mp.parts = << >>
     /\ mp.error = ""
     /\ Len(given) = 1

\* The token `--a` followed the boundary and ended the parts.
C31_Witness ==
  /\ given = << Data(dash \o << 97 >>) >>
  /\ mp.gen = "done"

\* ------------------------------------- claims on the header/body border

\* C32: in the step that yields a part, the part is given one buffered
\* chunk, and that chunk, then a CRLF if trailingCRLF is set, then the
\* lookbehind of crlfSearch, then what the boundary scanner has not given
\* yet, are the bytes written after the blank line that ends the header
\* block: what was read with the headers is the start of the body.
C32_BorderKeepsEveryByte ==
  [][/\ Len(mp'.parts) = Len(mp.parts) + 1
     /\ Len(mp'.parts) = Len(source'.sent)
     /\ source'.seg \in {"body", "pre", "delim"}
     => /\ mp'.gen = "yielded"
        /\ mp'.parts[Len(mp'.parts)].received = << >>
        /\ Len(mp'.parts[Len(mp'.parts)].bufferedChunks) = 1
        /\ mp'.parts[Len(mp'.parts)].bufferedChunks[1]
             \o (IF mp'.parts[Len(mp'.parts)].trailingCRLF THEN CRLF ELSE << >>)
             \o mp'.cLookbehind
             \o joinTokens(itTokens', Needle)
             \o itLookbehind'
           = bodyWire(source')]_vars

\* A part was yielded with the byte b as its first chunk and a CR held by
\* crlfSearch, and nothing was pulled from it yet.
C32_Witness ==
  /\ mp.gen = "yielded"
  /\ mp.parts[Len(mp.parts)].received = << >>
  /\ mp.parts[Len(mp.parts)].bufferedChunks = << << 98 >> >>
  /\ mp.cLookbehind = << 13 >>
  /\ itTokens = << >>
  /\ itLookbehind = << >>
  /\ bodyWire(source) = << 98, 13 >>

\* -------------------------------------------- claims on fabricated bytes

\* a is the start of b.
IsPrefix(a, b) == Len(a) <= Len(b) /\ SubSeq(b, 1, Len(a)) = a

\* The bytes written after the header block of the j-th part, up to the
\* delimiter that closes it if that is written.
wireAfterHeaders(src, j) ==
  IF j = Len(src.sent) /\ src.seg \in {"body", "pre", "delim"} THEN bodyWire(src)
  ELSE src.sent[j] \o CRLF \o Needle

\* C33: the body bytes received for a part are a run of the bytes of the
\* payload, the run that starts after the header block of the part: a
\* needle written in the body is not received as other bytes.
C33_BodyIsRunOfInput ==
  \A j \in 1..Len(full.parts) :
     IsPrefix(full.parts[j].received, wireAfterHeaders(source, j))

\* ------------------------------------------- claims on what parts share

\* C34: when readHeaderLines runs for a further part the crlfSearch the
\* parts share holds nothing, and what is handed on for every part after
\* the first starts with the bytes written after its own header block: no
\* CRLF and no byte held over from the part before.
C34_NothingHeldOver ==
  /\ \A m \in {mp, full} :
       m.gen = "headers" /\ m.parts # << >> => m.cLookbehind = << >>
  /\ \A j \in 2..Len(mp.parts) :
       IsPrefix(Available(mp.parts[j]), wireAfterHeaders(source, j))
  /\ \A j \in 2..Len(full.parts) :
       IsPrefix(full.parts[j].received, wireAfterHeaders(source, j))

\* The first body was a CR, held by crlfSearch until the CRLF before the
\* delimiter, and the second body, a single LF, was read to its end.
C34_Witness ==
  /\ Len(full.parts) = 2
  /\ full.parts[2].ended
  /\ source.sent = << << 13 >>, << 10 >> >>
  /\ full.parts[2].received = << 10 >>

\* ---------------------------------------------- claims on body chunks

\* C35: a call on the body iterator of the current part that returns a
\* value (it returns, and the body has neither ended nor failed) has handed
\* the consumer at least one byte, whether the value was buffered or came
\* from nextChunk().
C35_NoEmptyBodyChunk ==
  [][/\ mp.gen = "yielded"
     /\ mp'.gen = "yielded"
     /\ Len(mp'.parts) = Len(mp.parts)
     /\ mp' # mp
     /\ mp'.call = "none"
     /\ ~mp'.parts[Len(mp.parts)].ended
     /\ ~mp'.parts[Len(mp.parts)].failed
     => Len(mp'.parts[Len(mp.parts)].received) > Len(mp.parts[Len(mp.parts)].received)]_vars

\* The part was yielded with an empty chunk, a pull passed over it and over
\* an empty chunk of nextChunk() (a CRLF that is withheld), and returned the
\* bytes that came next.
C35_Witness ==
  /\ Len(mp.parts) = 1
  /\ mp.gen = "yielded"
  /\ mp.call = "none"
  /\ mp.parts[1].bufferedChunks = << >>
  /\ mp.parts[1].received = CRLF \o << 98 >>
  /\ source.sent[1] = CRLF \o << 98 >>

\* ------------------------------------- claims on streams without delimiter

\* C36: while the needle has not occurred in the stream no part is yielded
\* and nothing is thrown, and when such a stream has ended (the empty
\* stream too) the run that was waiting for the first part has ended
\* normally.
C36_NoDelimiterNoPart ==
  ~Contains(fed, Needle) =>
    /\ \A m \in {mp, full} :
         /\ m.parts = << >>
         /\ m.error = ""
         /\ m.gen \in {"start", "prologue", "done"}
    /\ itEnded /\ itTokens = << >> /\ ~itLocked => full.gen = "done" /\ full.call = "none"

\* A stream of prologue bytes ended, and the run ended normally.
C36_Witness ==
  /\ itEnded
  /\ ~itLocked
  /\ Len(fed) >= 2
  /\ ~Contains(fed, Needle)
  /\ full.gen = "done"
  /\ mp.gen = "done"

\* C39: for every needle, the occurrence table of the search constructed
\* for it has 256 entries; the entry of a byte c is needle_len - 1 - i for
\* the greatest i < needle_len - 1 with needle[i] = c, and needle_len when
\* c is not among the first needle_len - 1 bytes; for a needle of one byte
\* every entry is 1.
C39_OccurrenceTable ==
  LET T == createOccurenceTable(sNeedle)
      n == Len(sNeedle)
  IN sFed = << >> =>
     /\ DOMAIN T = 0..255
     /\ \A c \in 0..255 :
          LET at == {i \in 0..(n - 2) : sNeedle[i + 1] = c}
          IN IF at = {}
             THEN T[c] = n
             ELSE \E i \in at : (\A j \in at : j <= i) /\ T[c] = n - 1 - i
     /\ (n = 1 => \A c \in 0..255 : T[c] = 1)

\* A search constructed for a needle whose first two bytes are the same
\* byte: the later place of the byte has won.
C39_Witness ==
  /\ sNeedle = << 97, 97, 98 >>
  /\ sFed = << >>
  /\ ~sEnded
  /\ occ(sNeedle, 97) = 1
  /\ occ(sNeedle, 98) = 3
  /\ occ(sNeedle, 0) = 3

\* The _feed steps of feed(chunk) from pos on: each returns a position
\* greater than the one it was given and at most the chunk's length.
RECURSIVE feedStepsAdvance(_, _, _, _)
stepAdvances(needle, chunk, pos, r) ==
  /\ r.pos > pos
  /\ r.pos <= Len(chunk)
  /\ feedStepsAdvance(needle, r.lookbehind, chunk, r.pos)

feedStepsAdvance(needle, lookbehind, chunk, pos) ==
  \/ pos = Len(chunk)
  \/ stepAdvances(needle, chunk, pos, feedStep(needle, lookbehind, chunk, pos))

\* The number of _feed steps feed(chunk) takes.
RECURSIVE feedSteps(_, _, _, _)
feedSteps(needle, lookbehind, chunk, pos) ==
  IF pos >= Len(chunk) THEN 0
  ELSE 1 + feedSteps(needle, feedStep(needle, lookbehind, chunk, pos).lookbehind,
                     chunk, feedStep(needle, lookbehind, chunk, pos).pos)

\* The chunk of the feed call of a step of the search.
fedChunk == SubSeq(sFed', Len(sFed) + 1, Len(sFed'))

\* C37: feed terminates on every chunk: in every call feed(chunk), each
\* _feed step returns a position greater than the one it was given and at
\* most the chunk's length, and the occurrence table's entry of every byte
\* the search can look up, a byte held back or of the chunk, is at least 1.
C37_FeedTerminates ==
  [][sFed' # sFed =>
       /\ feedStepsAdvance(sNeedle, sLookbehind, fedChunk, 0)
       /\ \A i \in 1..Len(sLookbehind) : occ(sNeedle, sLookbehind[i]) >= 1
       /\ \A i \in 1..Len(fedChunk) : occ(sNeedle, fedChunk[i]) >= 1]_vars

\* A search that held the needle's first byte back was fed a chunk which it
\* used up in two _feed steps, each ending on a match: the first across the
\* chunks, the second at the chunk's end.
C37_Witness ==
  /\ sNeedle = << 97, 98 >>
  /\ ~sEnded
  /\ sFed = << 97, 98, 97, 98 >>
  /\ sReturned = << MATCH, MATCH >>
  /\ sLookbehind = << >>
  /\ feedStep(sNeedle, << 97 >>, << 98, 97, 98 >>, 0).pos = 1
  /\ feedStep(sNeedle, << >>, << 98, 97, 98 >>, 1).pos = 3
  /\ feedSteps(sNeedle, << 97 >>, << 98, 97, 98 >>, 0) = 2

\* The text between two double quotes is well formed: every backslash in it
\* is followed by a character, which it escapes, and every double quote in
\* it is escaped.
RECURSIVE quotedText(_)
quotedText(s) ==
  IF s = << >> THEN TRUE
  ELSE IF s[1] = 92 THEN Len(s) >= 2 /\ quotedText(SubSeq(s, 3, Len(s)))
  ELSE s[1] # 34 /\ quotedText(Tail(s))

\* What such a text stands for: each escaped character itself, every other
\* character as it is.
RECURSIVE literalOf(_)
literalOf(s) ==
  IF s = << >> THEN << >>
  ELSE IF s[1] = 92 THEN << s[2] >> \o literalOf(SubSeq(s, 3, Len(s)))
  ELSE << s[1] >> \o literalOf(Tail(s))

\* The pieces written between the quotes of `;name="..."`, as one text.
quotedPieces == mergeArrays(SubSeq(hParams, 4, Len(hParams) - 1))

\* The Content-Disposition line is `form-data;name="..."` with a well-formed
\* text between the quotes that stands for at least one character.
quotedName ==
  /\ hDisposition
  /\ Len(hParams) >= 5
  /\ SubSeq(hParams, 1, 3) = << << 59 >> \o KeyName, << 61 >>, << 34 >> >>
  /\ hParams[Len(hParams)] = << 34 >>
  /\ quotedText(quotedPieces)
  /\ literalOf(quotedPieces) # << >>

\* The part read from the one line
\* `Content-Disposition: form-data; name="a"; filename="<text>"`.
filenamePart(text) ==
  yieldPart(InHeaders,
            << StrDispositionName \o << 97 >> \o StrQuote
                 \o StrFilenameParam \o text \o StrQuote >>,
            << >>)

\* What is read from that line is a part whose filename is value.
filenameIs(m, value) ==
  /\ m.gen = "yielded"
  /\ Len(m.parts) = 1
  /\ m.parts[1].name = << 97 >>
  /\ m.parts[1].filename = value

\* C38: a `;` between the double quotes of a parameter value of a
\* Content-Disposition line does not end the parameter, and between the
\* quotes a backslash makes the next character literal: a quoted name, and
\* a quoted filename, holding `;`, `=`, an escaped `"` or an escaped `\`
\* is the value of the part's name, or filename, character for character.
C38_QuotedValueKept ==
  quotedName =>
    /\ hResult.gen = "yielded"
    /\ Len(hResult.parts) = 1
    /\ hResult.parts[1].name = literalOf(quotedPieces)
    /\ hResult.parts[1].filename = Undefined
    /\ filenameIs(filenamePart(quotedPieces), literalOf(quotedPieces))

\* The line `Content-Disposition: form-data;name="\""` was parsed: the name
\* is `"`, as is the filename written the same way.
C38_Witness ==
  /\ quotedName
  /\ hOther = << >>
  /\ quotedPieces = << 92, 34 >>
  /\ hResult.gen = "yielded"
  /\ hResult.parts[1].name = << 34 >>
  /\ filenamePart(quotedPieces).parts[1].filename = << 34 >>

====
